---------------------------- MODULE Spec2Model ----------------------------
(***************************************************************************)
(* Model of the Emby API client runtime of tsukimi                         *)
(* (src/src/client/emby_client.rs): the process-wide EmbyClient session    *)
(* state and its setters, the request pipeline behind the tokio semaphore, *)
(* the background admin check spawned by init, the requests the calls      *)
(* build (path, query string, headers), and the image cache of get_image   *)
(* and get_user_avatar.                                                    *)
(*                                                                         *)
(* Text is modelled as sequences of one-character strings so that parsing  *)
(* and formatting are computed, not assumed.  Option<T> is modelled as a   *)
(* sequence of length 0 (None) or 1 (Some).                                *)
(***************************************************************************)
EXTENDS Integers, Sequences, FiniteSets, TLC

VARIABLES
    url,                \* EmbyClient.url : Mutex<Option<Url>>
    headers,            \* EmbyClient.headers : header name -> value
    user_id,            \* EmbyClient.user_id
    user_name,          \* EmbyClient.user_name
    user_password,      \* EmbyClient.user_password
    user_access_token,  \* EmbyClient.user_access_token
    server_name,        \* EmbyClient.server_name
    server_name_hash,   \* EmbyClient.server_name_hash
    admin,              \* crate::ui::provider admin flag written by init
    permits,            \* free permits of EmbyClient.semaphore
    task,               \* the asynchronous calls: task[t] is one future
    last,               \* the most recent synchronous call and its result
    files,              \* the image cache directory: file name -> file
    fetch,              \* the image calls: fetch[f] is one future
    built,              \* built[t]: the request a search or login call of
                        \* future t has prepared and not yet sent
    lock,               \* the Mutex of each session field: who holds it
    worker,             \* the threads inside synchronous calls
    reply               \* reply[t]: what the server holds for the admin
                        \* check of future t

vars == <<url, headers, user_id, user_name, user_password, user_access_token,
          server_name, server_name_hash, admin, permits, task, last,
          files, fetch, built, lock, worker, reply>>

cacheVars == <<files, fetch>>

syncVars == <<lock, worker, reply>>

sessionVars == <<url, headers, user_id, user_name, user_password,
                 user_access_token, server_name, server_name_hash>>

-----------------------------------------------------------------------------
(* Bounds of the model.                                                    *)

\* size of the semaphore, SETTINGS.threads() at construction
Threads == 1
\* number of concurrently running futures
NumTasks == 2
\* background admin checks that may be alive at once
MaxChecks == 1

\* number of concurrently running image calls
NumFetches == 1

\* number of futures that make search and login calls
NumCallers == 1

\* number of threads that make synchronous calls
NumWorkers == 2

Tasks == 1..NumTasks
Fetches == 1..NumFetches
\* the image calls of the specification of racing saves: one more
Racers == 1..(NumFetches + 1)
Callers == {t \in Tasks : t <= NumCallers}
Workers == 1..NumWorkers

-----------------------------------------------------------------------------
(* Text helpers.                                                           *)

None == <<>>
Some(x) == <<x>>

Letters == {"a","b","c","d","e","f","g","h","i","j","k","l","m",
            "n","o","p","q","r","s","t","u","v","w","x","y","z"}
Digits == {"0","1","2","3","4","5","6","7","8","9"}

DigitVal(c) ==
    CASE c = "0" -> 0 [] c = "1" -> 1 [] c = "2" -> 2 [] c = "3" -> 3
      [] c = "4" -> 4 [] c = "5" -> 5 [] c = "6" -> 6 [] c = "7" -> 7
      [] c = "8" -> 8 [] c = "9" -> 9

DigitChar(d) ==
    CASE d = 0 -> "0" [] d = 1 -> "1" [] d = 2 -> "2" [] d = 3 -> "3"
      [] d = 4 -> "4" [] d = 5 -> "5" [] d = 6 -> "6" [] d = 7 -> "7"
      [] d = 8 -> "8" [] d = 9 -> "9"

AllDigits(s) == \A i \in 1..Len(s) : s[i] \in Digits

RECURSIVE DecValue(_)
\* value of a string of decimal digits
DecValue(s) ==
    IF s = <<>> THEN 0
    ELSE 10 * DecValue(SubSeq(s, 1, Len(s) - 1)) + DigitVal(s[Len(s)])

RECURSIVE ToDec(_)
\* decimal rendering of a natural number, as Display for integers does
ToDec(n) ==
    IF n < 10 THEN <<DigitChar(n)>>
    ELSE ToDec(n \div 10) \o <<DigitChar(n % 10)>>

\* position of the first occurrence of c in s, 0 when absent
IndexOf(s, c) ==
    IF \E i \in 1..Len(s) : s[i] = c
    THEN CHOOSE i \in 1..Len(s) : s[i] = c /\ \A j \in 1..(i - 1) : s[j] # c
    ELSE 0

RECURSIVE Split(_, _)
\* s split at every occurrence of c
Split(s, c) ==
    LET i == IndexOf(s, c) IN
    IF i = 0 THEN <<s>>
    ELSE <<SubSeq(s, 1, i - 1)>> \o Split(SubSeq(s, i + 1, Len(s)), c)

RECURSIVE Join(_, _)
\* the pieces of ss joined with c between them
Join(ss, c) ==
    IF ss = <<>> THEN <<>>
    ELSE IF Len(ss) = 1 THEN ss[1]
    ELSE ss[1] \o <<c>> \o Join(Tail(ss), c)

RECURSIVE StripSlashes(_)
StripSlashes(s) ==
    IF s # <<>> /\ s[1] = "/" THEN StripSlashes(Tail(s)) ELSE s

-----------------------------------------------------------------------------
(* str::parse::<u16>: an optional leading "+", then one or more decimal    *)
(* digits whose value fits 16 bits.                                        *)

U16Max == 65535

ParseU16(p) ==
    LET body == IF p # <<>> /\ p[1] = "+" THEN Tail(p) ELSE p IN
    IF body # <<>> /\ AllDigits(body) /\ DecValue(body) <= U16Max
    THEN [ok |-> TRUE, val |-> DecValue(body)]
    ELSE [ok |-> FALSE]

-----------------------------------------------------------------------------
(* The url crate, as far as header_change_url uses it.  A Url is           *)
(*   scheme, host : Option<text>, port : Option<u16>,                      *)
(*   path : the list of path segments ("/" is <<"">>, "/x/" is <<x, "">>), *)
(*   opaque : TRUE for a cannot-be-a-base URL such as "localhost:8096".    *)
(* Modelled inputs use lower-case letters, digits and the characters       *)
(* + - . : / only; hosts are domain names or canonical dotted quads, paths *)
(* hold no dot segments, so no further normalisation applies to them.      *)

HTTP == <<"h","t","t","p">>
HTTPS == <<"h","t","t","p","s">>
FILE == <<"f","i","l","e">>
EMBY == <<"e","m","b","y">>

SchemeChars == Letters \cup Digits \cup {"+", "-", "."}
HostChars == Letters \cup Digits \cup {"+", "-", "."}

\* parser::default_port
DefaultPort(scheme) ==
    CASE scheme = HTTP -> Some(80)
      [] scheme = HTTPS -> Some(443)
      [] OTHER -> None

IsSpecial(scheme) == scheme \in {HTTP, HTTPS, FILE}

UrlErr(e) == [ok |-> FALSE, err |-> e]
UrlOk(u) == [ok |-> TRUE, val |-> u]

\* the authority "host[:port]" and the path that follows it
ParseAuthority(scheme, rest) ==
    LET slash == IndexOf(rest, "/")
        auth == IF slash = 0 THEN rest ELSE SubSeq(rest, 1, slash - 1)
        tail == IF slash = 0 THEN <<>> ELSE SubSeq(rest, slash + 1, Len(rest))
        colon == IndexOf(auth, ":")
        host == IF colon = 0 THEN auth ELSE SubSeq(auth, 1, colon - 1)
        ptxt == IF colon = 0 THEN <<>> ELSE SubSeq(auth, colon + 1, Len(auth))
        path == IF slash = 0
                THEN (IF IsSpecial(scheme) THEN <<(<<>>)>> ELSE <<>>)
                ELSE Split(tail, "/")
    IN  IF host = <<>> /\ IsSpecial(scheme) /\ scheme # FILE
            THEN UrlErr("EmptyHost")
        ELSE IF \E i \in 1..Len(host) : host[i] \notin HostChars
            THEN UrlErr("InvalidDomainCharacter")
        ELSE IF ~AllDigits(ptxt) \/ (ptxt # <<>> /\ DecValue(ptxt) > U16Max)
            THEN UrlErr("InvalidPort")
        ELSE UrlOk([scheme |-> scheme,
                    host |-> Some(host),
                    port |-> IF ptxt = <<>> \/ Some(DecValue(ptxt)) = DefaultPort(scheme)
                             THEN None ELSE Some(DecValue(ptxt)),
                    path |-> path,
                    opaque |-> FALSE])

\* Url::parse
UrlParse(s) ==
    LET colon == IndexOf(s, ":")
        scheme == SubSeq(s, 1, colon - 1)
        rest == SubSeq(s, colon + 1, Len(s))
    IN  IF \/ colon <= 1
           \/ s[1] \notin Letters
           \/ \E i \in 1..(colon - 1) : s[i] \notin SchemeChars
            THEN UrlErr("RelativeUrlWithoutBase")
        ELSE IF scheme \in {HTTP, HTTPS}
            THEN ParseAuthority(scheme, StripSlashes(rest))
        ELSE IF Len(rest) >= 2 /\ rest[1] = "/" /\ rest[2] = "/"
            THEN ParseAuthority(scheme, SubSeq(rest, 3, Len(rest)))
        ELSE IF rest # <<>> /\ rest[1] = "/"
            THEN UrlOk([scheme |-> scheme, host |-> None, port |-> None,
                        path |-> Split(Tail(rest), "/"), opaque |-> FALSE])
        ELSE UrlOk([scheme |-> scheme, host |-> None, port |-> None,
                    path |-> <<rest>>, opaque |-> TRUE])

\* Url::set_port: Err(()) without a host or for file:, a default port is
\* stored as None
UrlSetPort(u, port) ==
    IF u.host = None \/ u.host = Some(<<>>) \/ u.scheme = FILE
    THEN [ok |-> FALSE]
    ELSE [ok |-> TRUE,
          val |-> [u EXCEPT !.port = IF port = DefaultPort(u.scheme)
                                     THEN None ELSE port]]

\* Url::join of a relative reference "seg/": the last segment of the base
\* path is replaced
UrlJoinDir(u, seg) ==
    IF u.opaque THEN UrlErr("RelativeUrlWithCannotBeABaseBase")
    ELSE UrlOk([u EXCEPT !.path =
                   (IF u.path = <<>> THEN <<>> ELSE SubSeq(u.path, 1, Len(u.path) - 1))
                   \o <<seg, <<>> >>])

\* Url::as_str, the serialisation read back by callers
UrlToString(u) ==
    u.scheme \o <<":">>
      \o (IF u.host # None THEN <<"/", "/">> \o u.host[1] ELSE <<>>)
      \o (IF u.port # None THEN <<":">> \o ToDec(u.port[1]) ELSE <<>>)
      \o (IF u.opaque THEN u.path[1]
          ELSE IF u.path = <<>> THEN <<>>
          ELSE <<"/">> \o Join(u.path, "/"))

-----------------------------------------------------------------------------
(* Header values and the authorization header.                             *)

\* characters HeaderValue::from_str rejects (not visible ASCII)
ControlChars == {"\n", "\r"}

\* HeaderValue::from_str
HeaderValueFromStr(s) ==
    IF \E i \in 1..Len(s) : s[i] \in ControlChars
    THEN [ok |-> FALSE]
    ELSE [ok |-> TRUE, val |-> s]

\* HeaderMap::insert: the entry is added or replaced
HeaderInsert(h, name, value) ==
    [n \in (DOMAIN h) \cup {name} |-> IF n = name THEN value ELSE h[n]]

CLIENT_ID == <<"T","s","u","k","i","m","i">>
\* values the process reads once from its environment
DEVICE_NAME == <<"p","c">>
DEVICE_ID == <<"d","1">>
VERSION == <<"0",".","1">>

AuthPrefix == <<"E","m","b","y"," ","U","s","e","r","I","d","=">>

generate_emby_authorization(uid, client, device, device_id, version) ==
    AuthPrefix \o uid
      \o <<",","C","l","i","e","n","t","=">> \o client
      \o <<",","D","e","v","i","c","e","=">> \o device
      \o <<",","D","e","v","i","c","e","I","d","=">> \o device_id
      \o <<",","V","e","r","s","i","o","n","=">> \o version

\* the UserId directive of an authorization header value, as a server
\* reads it: the text between "UserId=" and the next comma
AuthUserId(h) ==
    LET rest == SubSeq(h, Len(AuthPrefix) + 1, Len(h))
        comma == IndexOf(rest, ",")
    IN  IF comma = 0 THEN rest ELSE SubSeq(rest, 1, comma - 1)

-----------------------------------------------------------------------------
(* generate_hash: 64-bit FNV-1a of the bytes, printed in lower-case hex.   *)
(* A 64-bit word is a sequence of 8 bytes, least significant first, so     *)
(* that the wrapping multiplication keeps its width.                       *)

RECURSIVE XorByte(_, _, _)
\* bitwise exclusive or of the low n bits of a and b
XorByte(a, b, n) ==
    IF n = 0 THEN 0
    ELSE 2 * XorByte(a \div 2, b \div 2, n - 1) + ((a + b) % 2)

\* FNV offset basis 0xcbf29ce484222325 and prime 0x100000001b3
FnvOffset == <<37, 35, 34, 132, 228, 156, 242, 203>>
FnvPrime == <<179, 1, 0, 0, 0, 1, 0, 0>>

RECURSIVE MulStep(_, _, _, _)
\* schoolbook product of two 8-byte words modulo 2^64, from byte k on
MulStep(a, b, k, carry) ==
    IF k > 8 THEN <<>>
    ELSE CHOOSE word \in
             {<<sum % 256>> \o MulStep(a, b, k + 1, sum \div 256) :
                sum \in {carry + (LET RECURSIVE Acc(_)
                                      Acc(i) == IF i > k THEN 0
                                                ELSE a[i] * b[k + 1 - i] + Acc(i + 1)
                                  IN Acc(1))}} : TRUE

WrappingMul(a, b) == MulStep(a, b, 1, 0)

\* code of a byte of the modelled alphabet
ByteOf(c) ==
    CASE c = "a" -> 97 [] c = "b" -> 98 [] c = "c" -> 99 [] c = "m" -> 109
      [] c = "s" -> 115 [] c = "v" -> 118 [] c = "1" -> 49 [] c = "2" -> 50

RECURSIVE FnvWrite(_, _)
\* FnvHasher::write: for each byte, xor then multiply by the prime
FnvWrite(h, s) ==
    IF s = <<>> THEN h
    ELSE CHOOSE word \in
             {FnvWrite(WrappingMul(x, FnvPrime), Tail(s)) :
                x \in {[h EXCEPT ![1] = XorByte(@, ByteOf(s[1]), 8)]}} : TRUE

HexChar(d) ==
    IF d < 10 THEN DigitChar(d)
    ELSE CASE d = 10 -> "a" [] d = 11 -> "b" [] d = 12 -> "c"
           [] d = 13 -> "d" [] d = 14 -> "e" [] d = 15 -> "f"

RECURSIVE StripZeros(_)
StripZeros(s) ==
    IF Len(s) > 1 /\ s[1] = "0" THEN StripZeros(Tail(s)) ELSE s

\* format!("{:x}", word)
ToHex(w) ==
    CHOOSE text \in
        {StripZeros(digits) :
           digits \in {[i \in 1..16 |->
                          LET byte == w[8 - ((i - 1) \div 2)]
                          IN HexChar(IF i % 2 = 1 THEN byte \div 16
                                     ELSE byte % 16)]}} : TRUE

generate_hash(s) ==
    CHOOSE text \in {ToHex(word) : word \in {FnvWrite(FnvOffset, s)}} : TRUE

-----------------------------------------------------------------------------
(* The session setters, as functions from the session before the call to   *)
(* the session after it and the value returned.  The Mutex::lock error     *)
(* branches need a poisoned lock, which takes a panic inside a critical    *)
(* section; they are in the steps of the threads, further down.            *)

Session ==
    [url |-> url, headers |-> headers, user_id |-> user_id,
     user_name |-> user_name, user_password |-> user_password,
     user_access_token |-> user_access_token,
     server_name |-> server_name, server_name_hash |-> server_name_hash]

Ret(s, res) == [s |-> s, res |-> res]

header_change_token(s, token) ==
    LET v == HeaderValueFromStr(token) IN
    IF ~v.ok THEN Ret(s, "InvalidHeaderValue")
    ELSE Ret([s EXCEPT !.headers = HeaderInsert(@, "x-emby-token", v.val)], "Ok")

\* header_change_url without the join of the API root segment
header_change_url_no_root(s, u, port) ==
    LET parsed == UrlParse(u)
        p == ParseU16(port)
        number == IF p.ok THEN p.val ELSE 0
        ported == UrlSetPort(parsed.val, Some(number))
    IN  IF ~parsed.ok THEN Ret(s, "UrlParseError")
        ELSE IF ~ported.ok THEN Ret(s, "FailedToSetPort")
        ELSE Ret([s EXCEPT !.url = Some(ported.val)], "Ok")

\* header_change_url that retries a text without a scheme as "http://" + text
header_change_url_lenient(s, u, port) ==
    LET first == UrlParse(u)
        parsed == IF first.ok THEN first
                  ELSE UrlParse(HTTP \o <<":", "/", "/">> \o u)
        p == ParseU16(port)
        number == IF p.ok THEN p.val ELSE 0
        ported == UrlSetPort(parsed.val, Some(number))
        joined == UrlJoinDir(ported.val, EMBY)
    IN  IF ~parsed.ok THEN Ret(s, "UrlParseError")
        ELSE IF ~ported.ok THEN Ret(s, "FailedToSetPort")
        ELSE IF ~joined.ok THEN Ret(s, "UrlParseError")
        ELSE Ret([s EXCEPT !.url = Some(joined.val)], "Ok")

header_change_url(s, u, port) ==
    LET parsed == UrlParse(u)
        p == ParseU16(port)
        number == IF p.ok THEN p.val ELSE 0       \* unwrap_or_default
        ported == UrlSetPort(parsed.val, Some(number))
        joined == UrlJoinDir(ported.val, EMBY)
    IN  IF ~parsed.ok THEN Ret(s, "UrlParseError")
        ELSE IF ~ported.ok THEN Ret(s, "FailedToSetPort")
        ELSE IF ~joined.ok THEN Ret(s, "UrlParseError")
        ELSE Ret([s EXCEPT !.url = Some(joined.val)], "Ok")

\* header_change_user_id that drops the entry when the value is rejected
header_change_user_id_clear(s, uid) ==
    LET v == HeaderValueFromStr(
                 generate_emby_authorization(uid, CLIENT_ID, DEVICE_NAME,
                                             DEVICE_ID, VERSION))
    IN  IF ~v.ok
        THEN Ret([s EXCEPT !.headers =
                      [n \in (DOMAIN @) \ {"x-emby-authorization"} |-> @[n]]],
                 "InvalidHeaderValue")
        ELSE Ret([s EXCEPT !.headers =
                      HeaderInsert(@, "x-emby-authorization", v.val)], "Ok")

header_change_user_id(s, uid) ==
    LET v == HeaderValueFromStr(
                 generate_emby_authorization(uid, CLIENT_ID, DEVICE_NAME,
                                             DEVICE_ID, VERSION))
    IN  IF ~v.ok THEN Ret(s, "InvalidHeaderValue")
        ELSE Ret([s EXCEPT !.headers =
                      HeaderInsert(@, "x-emby-authorization", v.val)], "Ok")

\* set_user_id that assigns the field and leaves the header as it is
set_user_id_field_only(s, uid) == Ret([s EXCEPT !.user_id = uid], "Ok")

\* the field is assigned first, then the header is regenerated
set_user_id(s, uid) ==
    header_change_user_id([s EXCEPT !.user_id = uid], uid)

set_user_name(s, name) == Ret([s EXCEPT !.user_name = name], "Ok")

set_user_password(s, pw) == Ret([s EXCEPT !.user_password = pw], "Ok")

set_user_access_token(s, token) ==
    Ret([s EXCEPT !.user_access_token = token], "Ok")

set_server_name(s, name) ==
    Ret([s EXCEPT !.server_name = name,
                  !.server_name_hash = generate_hash(name)], "Ok")

\* the ? operator: the call F runs on the session left by r, unless r is
\* already an error, which is then returned
Try(r, F(_)) ==
    CHOOSE out \in {IF v.res # "Ok" THEN v ELSE F(v.s) : v \in {r}} : TRUE

\* the setter calls of init, each followed by ?
init(s, account) ==
    Try(Try(Try(Try(Try(Try(
        header_change_url(s, account.server, account.port),
        LAMBDA x : header_change_token(x, account.access_token)),
        LAMBDA x : set_user_id(x, account.user_id)),
        LAMBDA x : set_user_name(x, account.username)),
        LAMBDA x : set_user_password(x, account.password)),
        LAMBDA x : set_user_access_token(x, account.access_token)),
        LAMBDA x : set_server_name(x, account.servername))

get_url_and_headers(s) ==
    IF s.url = None THEN [res |-> "UrlNotSet"]
    ELSE [res |-> "Ok", url |-> s.url[1], headers |-> s.headers]

\* EmbyClient::default
DefaultSession ==
    [url |-> None,
     headers |-> [n \in {"accept-encoding", "x-emby-authorization"} |->
                    IF n = "accept-encoding" THEN <<"g","z","i","p">>
                    ELSE generate_emby_authorization(<<>>, CLIENT_ID, DEVICE_NAME,
                                                     DEVICE_ID, VERSION)],
     user_id |-> <<>>, user_name |-> <<>>, user_password |-> <<>>,
     user_access_token |-> <<>>, server_name |-> <<>>,
     server_name_hash |-> <<>>]

\* the session variables take the values of session record s
Store(s) ==
    /\ url' = s.url
    /\ headers' = s.headers
    /\ user_id' = s.user_id
    /\ user_name' = s.user_name
    /\ user_password' = s.user_password
    /\ user_access_token' = s.user_access_token
    /\ server_name' = s.server_name
    /\ server_name_hash' = s.server_name_hash

-----------------------------------------------------------------------------
(* Building a request: Url::join of the path, the query string written by  *)
(* add_params_to_url, and the headers cloned from the session.             *)
(* A parameter list is a sequence of <<key, value>> pairs of texts.        *)

Capitals == {"A","B","C","D","E","F","G","H","I","J","K","L","M",
             "N","O","P","Q","R","S","T","U","V","W","X","Y","Z"}

\* characters the URL parser removes from its input wherever they stand
UrlStripped == {"\t", "\n", "\r"}

RECURSIVE RemoveStripped(_)
RemoveStripped(s) ==
    IF s = <<>> THEN <<>>
    ELSE IF Len(s) = 1 THEN (IF s[1] \in UrlStripped THEN <<>> ELSE s)
    ELSE RemoveStripped(SubSeq(s, 1, Len(s) \div 2))
           \o RemoveStripped(SubSeq(s, Len(s) \div 2 + 1, Len(s)))

\* Url::join of a relative path without scheme, query or fragment, such as
\* "Users/u1/Items": the last segment of the base path is replaced by the
\* segments of the reference; an empty reference gives the base itself
UrlJoin(u, rel) ==
    LET ref == RemoveStripped(rel) IN
    IF u.opaque THEN UrlErr("RelativeUrlWithCannotBeABaseBase")
    ELSE IF ref = <<>> THEN UrlOk(u)
    ELSE UrlOk([u EXCEPT !.path =
                   (IF u.path = <<>> THEN <<>> ELSE SubSeq(u.path, 1, Len(u.path) - 1))
                   \o Split(ref, "/")])

\* characters form_urlencoded::byte_serialize writes unchanged
QuerySafe == Letters \cup Capitals \cup Digits \cup {"*", "-", ".", "_"}

\* the percent escapes of the other characters of the modelled alphabet
PercentCode(c) ==
    CASE c = "&" -> <<"%","2","6">>
      [] c = "=" -> <<"%","3","D">>
      [] c = "+" -> <<"%","2","B">>
      [] c = "%" -> <<"%","2","5">>
      [] c = "," -> <<"%","2","C">>
      [] c = "/" -> <<"%","2","F">>
      [] c = "\n" -> <<"%","0","A">>

RECURSIVE byte_serialize(_)
\* form_urlencoded::byte_serialize: a space becomes "+".  The text is
\* serialised half by half, which gives the same text as byte by byte.
byte_serialize(s) ==
    IF s = <<>> THEN <<>>
    ELSE IF Len(s) = 1
        THEN (IF s[1] = " " THEN <<"+">>
              ELSE IF s[1] \in QuerySafe THEN <<s[1]>>
              ELSE PercentCode(s[1]))
    ELSE byte_serialize(SubSeq(s, 1, Len(s) \div 2))
           \o byte_serialize(SubSeq(s, Len(s) \div 2 + 1, Len(s)))

\* append_pair that replaces the text written so far
append_pair_replace(query, key, value) ==
    Some(byte_serialize(key) \o <<"=">> \o byte_serialize(value))

\* Serializer::append_pair on a query that is None or Some(text): "&" is
\* written first when the query already holds text
append_pair(query, key, value) ==
    LET text == IF query = None THEN <<>> ELSE query[1] IN
    Some(text \o (IF text # <<>> THEN <<"&">> ELSE <<>>)
              \o byte_serialize(key) \o <<"=">> \o byte_serialize(value))

RECURSIVE AppendAll(_, _)
\* the loop of add_params_to_url over the list, on the query of the URL
AppendAll(query, params) ==
    IF params = <<>> THEN query
    ELSE AppendAll(append_pair(query, params[1][1], params[1][2]), Tail(params))

\* a request URL: the joined Url and its query
add_params_to_url(u, params) == [url |-> u.url, query |-> AppendAll(u.query, params)]

\* Url::as_str of a request URL
RequestUrlToString(u) ==
    UrlToString(u.url) \o (IF u.query = None THEN <<>> ELSE <<"?">> \o u.query[1])

\* the inverse of PercentCode, as percent_decode reads an escape
PercentChar(code) ==
    CASE code = <<"2","6">> -> "&"
      [] code = <<"3","D">> -> "="
      [] code = <<"2","B">> -> "+"
      [] code = <<"2","5">> -> "%"
      [] code = <<"2","C">> -> ","
      [] code = <<"2","F">> -> "/"
      [] code = <<"0","A">> -> "\n"

RECURSIVE QueryDecode(_)
\* form_urlencoded decoding of one name or value: "+" is a space, "%XX" is
\* the byte XX
QueryDecode(s) ==
    IF s = <<>> THEN <<>>
    ELSE IF s[1] = "+" THEN <<" ">> \o QueryDecode(Tail(s))
    ELSE IF s[1] = "%" /\ Len(s) >= 3
        THEN <<PercentChar(SubSeq(s, 2, 3))>> \o QueryDecode(SubSeq(s, 4, Len(s)))
    ELSE <<s[1]>> \o QueryDecode(Tail(s))

\* one "name=value" piece of a query, split at its first "="
ParsePair(piece) ==
    LET eq == IndexOf(piece, "=") IN
    IF eq = 0 THEN <<QueryDecode(piece), <<>> >>
    ELSE <<QueryDecode(SubSeq(piece, 1, eq - 1)),
           QueryDecode(SubSeq(piece, eq + 1, Len(piece)))>>

RECURSIVE ParsePieces(_)
ParsePieces(pieces) ==
    IF pieces = <<>> THEN <<>>
    ELSE (IF pieces[1] = <<>> THEN <<>> ELSE <<ParsePair(pieces[1])>>)
           \o ParsePieces(Tail(pieces))

\* Url::query_pairs, the pairs a server reads from the query: the
\* pieces between "&", empty pieces skipped
query_pairs(u) ==
    IF u.query = None THEN <<>> ELSE ParsePieces(Split(u.query[1], "&"))

\* prepare_request: the URL and headers of the session, the path joined,
\* the parameters appended
prepare_request(s, path, params) ==
    LET got == get_url_and_headers(s)
        joined == UrlJoin(got.url, path)
    IN  IF got.res # "Ok" THEN [res |-> "UrlNotSet"]
        ELSE IF ~joined.ok THEN [res |-> "UrlParseError"]
        ELSE [res |-> "Ok",
              url |-> add_params_to_url([url |-> joined.val, query |-> None], params),
              headers |-> got.headers]

\* prepare_request_headers: as prepare_request, with the Content-Type entry
\* inserted into the cloned header map
prepare_request_headers(s, path, params, content_type) ==
    LET got == get_url_and_headers(s)
        joined == UrlJoin(got.url, path)
        ctype == HeaderValueFromStr(content_type)
    IN  IF got.res # "Ok" THEN [res |-> "UrlNotSet"]
        ELSE IF ~joined.ok THEN [res |-> "UrlParseError"]
        ELSE IF ~ctype.ok THEN [res |-> "InvalidHeaderValue"]
        ELSE [res |-> "Ok",
              url |-> add_params_to_url([url |-> joined.val, query |-> None], params),
              headers |-> HeaderInsert(got.headers, "content-type", ctype.val)]

-----------------------------------------------------------------------------
(* The request pipeline.  task[t] is one asynchronous call:                *)
(*   op      the operation called,                                         *)
(*   pc      "idle", "spawned" (a spawned future not yet polled),          *)
(*           "acquire" (suspended in semaphore.acquire), "sending" (the    *)
(*           transport call request.send() is in flight), "reading" (the   *)
(*           response body is being read), "done" (the call has returned), *)
(*   holds   the call owns a SemaphorePermit,                              *)
(*   status  the HTTP status of the response received, 0 before it,        *)
(*   decoded the body was read and handed to the JSON decoder,             *)
(*   result  what the call returned.                                       *)

IdleTask ==
    [op |-> "none", pc |-> "idle", holds |-> FALSE, status |-> 0,
     decoded |-> FALSE, result |-> "none"]

\* operations that post and discard the Response: Ok(()) once post returns Ok
PostUnitOps == {"like", "change_password"}

\* the operations a caller may start
UserOps == {"request", "post", "post_json", "post_image", "request_picture"}
               \cup PostUnitOps

\* every operation but request_picture dispatches through send_request
UsesSendRequest(op) == op # "request_picture"

\* statuses the server may answer with
Statuses == {101, 200, 304, 404, 500}

\* ways request.send() can end: a transport error, or a response
Outcomes == {[ok |-> FALSE]} \cup {[ok |-> TRUE, status |-> st] : st \in Statuses}

IsSuccess(st) == st \in 200..299
IsRedirection(st) == st \in 300..399
IsClientError(st) == st \in 400..499
IsServerError(st) == st \in 500..599

\* reqwest Response::error_for_status: Err for 4xx and 5xx only
error_for_status(st) ==
    IF IsClientError(st) \/ IsServerError(st) THEN "Http" ELSE "Ok"

Returned(tk, result) == [tk EXCEPT !.pc = "done", !.result = result]

\* start_call that goes on to send_request whatever prepare_request returned
start_call_unchecked(s, op) ==
    [IdleTask EXCEPT !.op = op,
                     !.pc = IF UsesSendRequest(op) THEN "acquire" ELSE "sending"]

\* prepare_request, then the first await of the operation
start_call(s, op) ==
    IF get_url_and_headers(s).res # "Ok"
    THEN Returned([IdleTask EXCEPT !.op = op], "UrlNotSet")
    ELSE [IdleTask EXCEPT !.op = op,
                          !.pc = IF UsesSendRequest(op) THEN "acquire" ELSE "sending"]

\* send_request that forgets the permit on the error path
send_request_leak(tk, outcome) ==
    IF ~outcome.ok
    THEN [tk |-> Returned([tk EXCEPT !.holds = FALSE], "Network"), release |-> 0]
    ELSE [tk |-> [tk EXCEPT !.holds = FALSE, !.status = outcome.status],
          release |-> 1]

\* send_request from the completion of request.send() to its return: the
\* permit is dropped by the early return on Err and by drop(permit) on Ok.
\* release is the number of permits handed back to the semaphore.
send_request(tk, outcome) ==
    IF ~outcome.ok
    THEN [tk |-> Returned([tk EXCEPT !.holds = FALSE], "Network"), release |-> 1]
    ELSE [tk |-> [tk EXCEPT !.holds = FALSE, !.status = outcome.status],
          release |-> 1]

\* request_picture from the completion of request.send() to its return
request_picture(tk, outcome) ==
    IF ~outcome.ok THEN Returned(tk, "Network")
    ELSE Returned([tk EXCEPT !.status = outcome.status], "Response")

\* what each operation does with the Response send_request gave it, up to
\* its return or its next await
after_response(tk) ==
    CASE tk.op \in {"request", "authenticate_admin", "post_json",
                    "search", "login"} ->
             IF error_for_status(tk.status) # "Ok" THEN Returned(tk, "Http")
             ELSE [tk EXCEPT !.pc = "reading"]
      [] tk.op = "post" -> Returned(tk, "Response")
      [] tk.op = "post_image" ->
             IF error_for_status(tk.status) # "Ok" THEN Returned(tk, "Http")
             ELSE Returned(tk, "Response")
      [] tk.op \in PostUnitOps -> Returned(tk, "Ok")

\* ways the body read can end: the transport fails, or the text is JSON of
\* the expected type (for authenticate_admin with is_administrator true or
\* false), or it is not
Bodies == {"error", "json_admin", "json", "garbage"}

\* the text of the error request returns when serde_json::from_str fails:
\* the path, the message e of the decoder, the text of the body
request_decode_error(path, e, res_text) ==
    <<"R","e","q","u","e","s","t"," ","P","a","t","h",":"," ">> \o path
      \o <<"\n","F","a","i","l","e","d"," ","p","a","r","s","i","n","g"," ",
           "r","e","s","p","o","n","s","e"," ","t","o"," ","j","s","o","n"," ">>
      \o e \o <<":", " ">> \o res_text

\* after_body that reports a body that does not parse as a transport error
after_body_transport(tk, body) ==
    CASE body \in {"error", "garbage"} ->
             Returned([tk EXCEPT !.decoded = body = "garbage"], "Network")
      [] OTHER -> Returned([tk EXCEPT !.decoded = TRUE], "Ok")

\* request / post_json from the completion of the body read to the return
after_body(tk, body) ==
    CASE body = "error" -> Returned(tk, "Network")
      [] body = "garbage" -> Returned([tk EXCEPT !.decoded = TRUE], "Decode")
      [] OTHER -> Returned([tk EXCEPT !.decoded = TRUE], "Ok")

\* the closure that sets the flag after every check that returned Ok
admin_after_check_any_user(flag, result, body) ==
    IF result = "Ok" THEN TRUE ELSE flag

\* the closure init spawns, once authenticate_admin has returned
admin_after_check(flag, result, body) ==
    IF result = "Ok" /\ body = "json_admin" THEN TRUE ELSE flag

-----------------------------------------------------------------------------
(* The image cache.  files maps the name of each file of the cache         *)
(* directory to [bytes, etag]: its content and its user.etag attribute     *)
(* (None when the file has none).  A body is [len, data]: its length in    *)
(* bytes and what the bytes are.  fetch[f] is one get_image or             *)
(* get_user_avatar call:                                                   *)
(*   op, pc, result   as for task; pc "panicked" after a panic,            *)
(*   status  the status of the Response the call holds (0 when it holds    *)
(*           none: response.bytes() consumes the Response),                *)
(*   id, image_type, tag      the arguments of get_image,                  *)
(*   req     the request built and not yet sent (None otherwise),          *)
(*   etag    the ETag header of the response,                              *)
(*   received  the body read from the response (None before it),           *)
(*   path    the path returned with Ok,                                    *)
(*   read    how the read of the stored tag went while the request was     *)
(*           built: "none" (no file), "ok" or "failed",                    *)
(*   warned  save_image logged "Failed to set etag xattr".                 *)
(* pc "tagging" is a call inside save_image, between the return of         *)
(* std::fs::write and the write of the attribute.                          *)

\* bytes.len() > 1000 in get_image
ImageThreshold == 1000

NoFiles == [name \in {} |-> None]

PRIMARY == <<"P","r","i","m","a","r","y">>
BACKDROP == <<"B","a","c","k","d","r","o","p">>

\* emby_cache_path(), the directory of the cache
CacheDir == <<"c","/">>

\* format!("{}-{}-{}", id, image_type, tag.unwrap_or(0))
CacheName(id, image_type, tag) ==
    id \o <<"-">> \o image_type \o <<"-">>
       \o ToDec(IF tag = None THEN 0 ELSE tag[1])

\* path.to_string_lossy() of the cache file
CachePath(name) == CacheDir \o name

IdleFetch ==
    [op |-> "none", pc |-> "idle", status |-> 0, result |-> "none",
     id |-> <<>>, image_type |-> <<>>, tag |-> None,
     req |-> None, etag |-> None, received |-> None, path |-> <<>>,
     read |-> "none", warned |-> FALSE]

\* what the file system does with one save_image: std::fs::write succeeds,
\* fails before the file is opened, or fails after truncating it; xattr::set
\* succeeds or fails
DiskOutcomes ==
    [write : {"ok", "create_fails", "write_fails"}, xattr : BOOLEAN]

\* the content of a file whose write failed after the truncation
Truncated == [len |-> 0, data |-> "none"]

\* std::fs::write on an existing file keeps the inode and its attributes
FileWritten(fs, name, bytes) ==
    [n \in (DOMAIN fs) \cup {name} |->
        IF n = name
        THEN [bytes |-> bytes,
              etag |-> IF name \in DOMAIN fs THEN fs[name].etag ELSE None]
        ELSE fs[n]]

\* save_image that unwraps the result of xattr::set as it does that of the
\* file write
save_image_strict(fs, id, image_type, tag, bytes, etag, disk) ==
    LET name == CacheName(id, image_type, tag)
        written == FileWritten(fs, name, bytes)
    IN  CASE disk.write = "create_fails" ->
                 [files |-> fs, panic |-> TRUE, path |-> <<>>, warned |-> FALSE]
          [] disk.write = "write_fails" ->
                 [files |-> FileWritten(fs, name, Truncated), panic |-> TRUE,
                  path |-> <<>>, warned |-> FALSE]
          [] etag # None /\ ~disk.xattr ->
                 [files |-> written, panic |-> TRUE, path |-> <<>>,
                  warned |-> FALSE]
          [] OTHER ->
                 [files |-> IF etag # None
                            THEN [written EXCEPT ![name].etag = etag]
                            ELSE written,
                  panic |-> FALSE,
                  path |-> CachePath(name),
                  warned |-> FALSE]

\* save_image: the bytes are written (a failure panics in unwrap), then the
\* attribute is set when the response carried a tag (a failure is logged)
save_image(fs, id, image_type, tag, bytes, etag, disk) ==
    LET name == CacheName(id, image_type, tag)
        written == FileWritten(fs, name, bytes)
    IN  CASE disk.write = "create_fails" ->
                 [files |-> fs, panic |-> TRUE, path |-> <<>>, warned |-> FALSE]
          [] disk.write = "write_fails" ->
                 [files |-> FileWritten(fs, name, Truncated), panic |-> TRUE,
                  path |-> <<>>, warned |-> FALSE]
          [] OTHER ->
                 [files |-> IF etag # None /\ disk.xattr
                            THEN [written EXCEPT ![name].etag = etag]
                            ELSE written,
                  panic |-> FALSE,
                  path |-> CachePath(name),
                  warned |-> etag # None /\ ~disk.xattr]

\* "Items/{id}/Images/{image_type}" and "/{tag}" when a tag is given
ImagePath(id, image_type, tag) ==
    <<"I","t","e","m","s","/">> \o id \o <<"/","I","m","a","g","e","s","/">>
        \o image_type
        \o (IF tag = None THEN <<>> ELSE <<"/">> \o ToDec(tag[1]))

ImageParams(image_type) ==
    << << <<"m","a","x","H","e","i","g","h","t">>,
          IF image_type = BACKDROP THEN <<"8","0","0">> ELSE <<"3","0","0">> >>,
       << <<"m","a","x","W","i","d","t","h">>,
          IF image_type = BACKDROP THEN <<"1","2","8","0">> ELSE <<"3","0","0">> >> >>

\* "Users/{user_id}/Images/Primary"
AvatarPath(uid) ==
    <<"U","s","e","r","s","/">> \o uid
        \o <<"/","I","m","a","g","e","s","/">> \o PRIMARY

AvatarParams ==
    << << <<"m","a","x","H","e","i","g","h","t">>, <<"5","0">> >>,
       << <<"m","a","x","W","i","d","t","h">>, <<"5","0">> >> >>

\* RequestBuilder::header: the entry is added to the headers of the request
HeaderAppend(h, name, value) == HeaderInsert(h, name, value)

\* the request request_picture builds: prepare_request, then the
\* If-None-Match header with etag.unwrap_or_default()
picture_request(s, path, params, etag) ==
    LET r == prepare_request(s, path, params)
        v == HeaderValueFromStr(IF etag = None THEN <<>> ELSE etag[1])
    IN  IF r.res # "Ok" THEN r
        ELSE IF ~v.ok THEN [res |-> "InvalidHeaderValue"]
        ELSE [r EXCEPT !.headers = HeaderAppend(@, "if-none-match", v.val)]

image_request(s, id, image_type, tag, etag) ==
    picture_request(s, ImagePath(id, image_type, tag), ImageParams(image_type), etag)

FetchOf(op, id, image_type, tag) ==
    [IdleFetch EXCEPT !.op = op, !.id = id, !.image_type = image_type,
                      !.tag = tag]

\* a call that has returned keeps its operation and what it returned
ReturnedFetch(fk, result, path) ==
    [IdleFetch EXCEPT !.op = fk.op, !.pc = "done", !.status = fk.status,
                      !.result = result, !.path = path]

Panicked(fk) == [IdleFetch EXCEPT !.op = fk.op, !.pc = "panicked"]

\* response.bytes() has consumed the Response
Consumed(fk) == [fk EXCEPT !.status = 0]

Received(fk, body) == [Consumed(fk) EXCEPT !.received = Some(body.bytes)]

\* the call returns the path save_image gave it, or ends in its panic
Saved(fk, saved, body) ==
    IF saved.panic THEN Panicked(fk)
    ELSE [Received(ReturnedFetch(fk, "Ok", saved.path), body)
            EXCEPT !.warned = saved.warned]

\* get_image up to its first await: the tag of the cached file is read when
\* the file exists (readable is FALSE when xattr::get fails or the value is
\* not UTF-8), then the request is built
get_image_start(s, fs, id, image_type, tag, readable) ==
    LET name == CacheName(id, image_type, tag)
        etag == IF name \in DOMAIN fs /\ readable THEN fs[name].etag ELSE None
        r == image_request(s, id, image_type, tag, etag)
        fk == FetchOf("get_image", id, image_type, tag)
    IN  IF r.res # "Ok" THEN ReturnedFetch(fk, r.res, <<>>)
        ELSE [fk EXCEPT !.pc = "sending", !.req = Some(r),
                        !.read = IF name \notin DOMAIN fs THEN "none"
                                 ELSE IF readable THEN "ok" ELSE "failed"]

\* get_image_response that takes a redirection for a failure
get_image_response_strict(fk, outcome) ==
    LET r == request_picture(fk, outcome) IN
    IF r.result = "Network" THEN ReturnedFetch(r, "Network", <<>>)
    ELSE IF ~IsSuccess(r.status) THEN ReturnedFetch(r, "FailedToGetImage", <<>>)
    ELSE [r EXCEPT !.pc = "reading", !.result = "none", !.req = None,
                   !.read = "none", !.etag = outcome.etag]

\* get_image from the completion of request_picture to its return or to
\* the await of the body
get_image_response(fk, outcome) ==
    LET r == request_picture(fk, outcome) IN
    IF r.result = "Network" THEN ReturnedFetch(r, "Network", <<>>)
    ELSE IF IsRedirection(r.status)
        THEN ReturnedFetch(r, "Ok", CachePath(CacheName(fk.id, fk.image_type, fk.tag)))
    ELSE IF ~IsSuccess(r.status) THEN ReturnedFetch(r, "FailedToGetImage", <<>>)
    ELSE [r EXCEPT !.pc = "reading", !.result = "none", !.req = None,
                   !.read = "none", !.etag = outcome.etag]

\* get_image_body that saves a body of exactly the threshold length
get_image_body_at_threshold(fk, fs, body, disk) ==
    IF ~body.ok
        THEN [fk |-> ReturnedFetch(Consumed(fk), "Network", <<>>), files |-> fs]
    ELSE IF body.bytes.len >= ImageThreshold
        THEN LET saved == save_image(fs, fk.id, fk.image_type, fk.tag,
                                     body.bytes, fk.etag, disk)
             IN  [fk |-> Saved(fk, saved, body), files |-> saved.files]
    ELSE [fk |-> Received(ReturnedFetch(fk, "Ok", <<>>), body), files |-> fs]

\* get_image from the completion of the body read to its return; body.ok is
\* FALSE when the read failed
get_image_body(fk, fs, body, disk) ==
    IF ~body.ok
        THEN [fk |-> ReturnedFetch(Consumed(fk), "Network", <<>>), files |-> fs]
    ELSE IF body.bytes.len > ImageThreshold
        THEN LET saved == save_image(fs, fk.id, fk.image_type, fk.tag,
                                     body.bytes, fk.etag, disk)
             IN  [fk |-> Saved(fk, saved, body), files |-> saved.files]
    ELSE [fk |-> Received(ReturnedFetch(fk, "Ok", <<>>), body), files |-> fs]

\* save_image up to the return of std::fs::write
save_image_write(fs, id, image_type, tag, bytes, disk) ==
    LET name == CacheName(id, image_type, tag) IN
    CASE disk.write = "create_fails" -> [files |-> fs, panic |-> TRUE]
      [] disk.write = "write_fails" ->
             [files |-> FileWritten(fs, name, Truncated), panic |-> TRUE]
      [] OTHER -> [files |-> FileWritten(fs, name, bytes), panic |-> FALSE]

\* save_image from the return of std::fs::write to its own return
save_image_tag(fs, id, image_type, tag, etag, disk) ==
    LET name == CacheName(id, image_type, tag) IN
    [files |-> IF etag # None /\ disk.xattr
               THEN [fs EXCEPT ![name].etag = etag]
               ELSE fs,
     path |-> CachePath(name),
     warned |-> etag # None /\ ~disk.xattr]

\* get_image from the completion of the body read to the return of
\* std::fs::write inside save_image, or to its return when nothing is saved
get_image_write(fk, fs, body, disk) ==
    IF ~body.ok \/ body.bytes.len <= ImageThreshold
    THEN get_image_body(fk, fs, body, disk)
    ELSE LET w == save_image_write(fs, fk.id, fk.image_type, fk.tag,
                                   body.bytes, disk)
         IN  [fk |-> IF w.panic THEN Panicked(fk)
                     ELSE [Received(fk, body) EXCEPT !.pc = "tagging"],
              files |-> w.files]

\* get_image from the return of std::fs::write to its return
get_image_tag(fk, fs, disk) ==
    LET saved == save_image_tag(fs, fk.id, fk.image_type, fk.tag, fk.etag, disk)
    IN  [fk |-> [ReturnedFetch(fk, "Ok", saved.path)
                    EXCEPT !.received = fk.received, !.warned = saved.warned],
         files |-> saved.files]

\* get_user_avatar up to its first await
get_user_avatar_start(s) ==
    LET r == picture_request(s, AvatarPath(s.user_id), AvatarParams, None)
        fk == FetchOf("get_user_avatar", <<>>, <<>>, None)
    IN  IF r.res # "Ok" THEN ReturnedFetch(fk, r.res, <<>>)
        ELSE [fk EXCEPT !.pc = "sending", !.req = Some(r)]

\* get_user_avatar from the completion of request_picture to the await of
\* the body: the status of the response is not looked at
get_user_avatar_response(fk, outcome) ==
    LET r == request_picture(fk, outcome) IN
    IF r.result = "Network" THEN ReturnedFetch(r, "Network", <<>>)
    ELSE [r EXCEPT !.pc = "reading", !.result = "none", !.req = None,
                   !.etag = outcome.etag]

\* get_user_avatar from the completion of the body read to its return: the
\* body is saved under the user id read at that moment
get_user_avatar_body(fk, s, fs, body, disk) ==
    IF ~body.ok
        THEN [fk |-> ReturnedFetch(Consumed(fk), "Network", <<>>), files |-> fs]
    ELSE LET saved == save_image(fs, s.user_id, PRIMARY, None, body.bytes,
                                 fk.etag, disk)
         IN  [fk |-> Saved(fk, saved, body), files |-> saved.files]

-----------------------------------------------------------------------------
(* search and login: the calls of the repository's test, with the request  *)
(* each of them builds.                                                    *)

\* format!("Users/{}/Items", user_id), the path of search
SearchPath(uid) ==
    <<"U","s","e","r","s","/">> \o uid \o <<"/","I","t","e","m","s">>

\* the parameter list of search
SearchParams(query, filter_str, start_index) ==
    <<
       << <<"F","i","e","l","d","s">>,
          <<"B","a","s","i","c","S","y","n","c","I","n","f","o",",","C","a","n","D","e","l","e","t","e",",","P","r","i","m","a","r","y","I","m","a","g","e","A","s","p","e","c","t","R","a","t","i","o",",","P","r","o","d","u","c","t","i","o","n","Y","e","a","r",",","S","t","a","t","u","s",",","E","n","d","D","a","t","e",",","C","o","m","m","u","n","i","t","y","R","a","t","i","n","g">> >>,
       << <<"I","n","c","l","u","d","e","I","t","e","m","T","y","p","e","s">>,
          filter_str >>,
       << <<"I","n","c","l","u","d","e","S","e","a","r","c","h","T","y","p","e","s">>,
          filter_str >>,
       << <<"S","t","a","r","t","I","n","d","e","x">>,
          start_index >>,
       << <<"S","o","r","t","B","y">>,
          <<"S","o","r","t","N","a","m","e">> >>,
       << <<"S","o","r","t","O","r","d","e","r">>,
          <<"A","s","c","e","n","d","i","n","g">> >>,
       << <<"E","n","a","b","l","e","I","m","a","g","e","T","y","p","e","s">>,
          <<"P","r","i","m","a","r","y",",","B","a","c","k","d","r","o","p",",","T","h","u","m","b",",","B","a","n","n","e","r">> >>,
       << <<"I","m","a","g","e","T","y","p","e","L","i","m","i","t">>,
          <<"1">> >>,
       << <<"R","e","c","u","r","s","i","v","e">>,
          <<"t","r","u","e">> >>,
       << <<"S","e","a","r","c","h","T","e","r","m">>,
          query >>,
       << <<"G","r","o","u","p","P","r","o","g","r","a","m","s","B","y","S","e","r","i","e","s">>,
          <<"t","r","u","e">> >>,
       << <<"L","i","m","i","t">>,
          <<"5","0">> >>
    >>

LoginPath ==
    <<"U","s","e","r","s","/","a","u","t","h","e","n","t","i","c","a","t","e",
      "b","y","n","a","m","e">>

APPLICATION_JSON ==
    <<"a","p","p","l","i","c","a","t","i","o","n","/","j","s","o","n">>

\* RequestBuilder::json: the Content-Type entry is added unless present
WithJson(r) ==
    IF r.res # "Ok" \/ "content-type" \in DOMAIN r.headers THEN r
    ELSE [r EXCEPT !.headers = HeaderInsert(@, "content-type", APPLICATION_JSON)]

\* search_request that builds the path with the user id of a new session
search_request_stale(s, query, filter_str, start_index) ==
    prepare_request([s EXCEPT !.headers = DefaultSession.headers],
                    SearchPath(DefaultSession.user_id),
                    SearchParams(query, filter_str, start_index))

\* the request search builds: the path from the user id read first, then
\* prepare_request
search_request(s, query, filter_str, start_index) ==
    prepare_request(s, SearchPath(s.user_id),
                    SearchParams(query, filter_str, start_index))

\* the request login builds through post_json and post
login_request(s) == WithJson(prepare_request(s, LoginPath, <<>>))

\* a call of operation op that has built request r: it returns the error
\* of prepare_request, or goes on to send_request
start_request(op, r) ==
    IF r.res # "Ok" THEN Returned([IdleTask EXCEPT !.op = op], r.res)
    ELSE [IdleTask EXCEPT !.op = op, !.pc = "acquire"]

-----------------------------------------------------------------------------
(* The locks.  Every session field is a std::sync::Mutex.  lock[l] is the  *)
(* Mutex of field l: holder is the set of threads that own its guard (at   *)
(* most one), poisoned is TRUE once a thread panicked while it owned the   *)
(* guard.  worker[h] is one thread inside a synchronous call:              *)
(*   op    the call made by the caller ("none" before the first),          *)
(*   call  the function the thread is executing (for init, the setter),    *)
(*   rest  for init, the setters still to call after this one,             *)
(*   pc    "idle", "done", "panicked", "spawn" (init after its setters),   *)
(*         or the name of the field whose lock the thread takes next,      *)
(*   arg   the arguments of op,                                            *)
(*   got   what the call has read so far,                                  *)
(*   res   what op returned.                                               *)
(* A step of a thread is one critical section: the lock is taken, the      *)
(* field is read or written, and the guard is dropped unless the function  *)
(* keeps it to its return.                                                 *)

LockNames ==
    {"url", "headers", "user_id", "user_name", "user_password",
     "user_access_token", "server_name", "server_name_hash"}

Unlocked == [holder |-> {}, poisoned |-> FALSE]

IdleWorker ==
    [op |-> "none", call |-> "none", rest |-> <<>>, pc |-> "idle",
     arg |-> <<>>, got |-> <<>>, res |-> "none"]

\* the setters init calls, in its order
InitCalls ==
    <<"header_change_url", "header_change_token", "set_user_id",
      "set_user_name", "set_user_password", "set_user_access_token",
      "set_server_name">>

\* functions that read the session for a path and a body and then post
Posters == {"like", "change_password"}

\* the field whose lock a function takes first
FirstLock(call) ==
    CASE call \in {"header_change_url", "get_url_and_headers",
                   "get_direct_stream_url"} -> "url"
      [] call = "header_change_token" -> "headers"
      [] call \in {"set_user_id", "user_id", "search"} \cup Posters -> "user_id"
      [] call = "set_user_name" -> "user_name"
      [] call = "set_user_password" -> "user_password"
      [] call = "set_user_access_token" -> "user_access_token"
      [] call = "set_server_name" -> "server_name"

\* the argument init passes to each setter
ArgOf(call, account) ==
    CASE call = "header_change_url" ->
             [url |-> account.server, port |-> account.port]
      [] call \in {"header_change_token", "set_user_access_token"} ->
             [v |-> account.access_token]
      [] call = "set_user_id" -> [v |-> account.user_id]
      [] call = "set_user_name" -> [v |-> account.username]
      [] call = "set_user_password" -> [v |-> account.password]
      [] call = "set_server_name" -> [v |-> account.servername]

\* the argument of the function a thread is executing
CallArg(w) == IF w.op = "init" THEN ArgOf(w.call, w.arg) ELSE w.arg

\* functions that unwrap the result of lock(): a poisoned lock panics them
Unwrappers == {"get_direct_stream_url", "user_id"}

\* header_change_url returns before it takes the lock
EarlyError(w) ==
    /\ w.call = "header_change_url"
    /\ LET parsed == UrlParse(CallArg(w).url) IN
       ~parsed.ok \/ ~UrlSetPort(parsed.val, Some(0)).ok

\* Videos/{media_source_id}/stream.{continer}
StreamPath(continer, media_source_id) ==
    <<"V","i","d","e","o","s","/">> \o media_source_id
        \o <<"/","s","t","r","e","a","m",".">> \o continer

\* PathSegmentsMut::pop: the path is cut at its last "/", unless it is "/"
PopSegment(u) ==
    IF u.path = <<>> THEN u
    ELSE IF Len(u.path) = 1 THEN [u EXCEPT !.path = << <<>> >>]
    ELSE [u EXCEPT !.path = SubSeq(@, 1, Len(@) - 1)]

\* the query of get_direct_stream_url up to the pair before api_key
StreamParams(media_source_id) ==
    << << <<"S","t","a","t","i","c">>, <<"t","r","u","e">> >>,
       << <<"m","e","d","i","a","S","o","u","r","c","e","I","d">>, media_source_id >>,
       << <<"d","e","v","i","c","e","I","d">>, DEVICE_ID >> >>

\* the text get_direct_stream_url returns for base URL u and token
get_direct_stream_url(u, token, continer, media_source_id, etag) ==
    RequestUrlToString(
        add_params_to_url(
            [url |-> UrlJoin(PopSegment(u),
                             StreamPath(continer, media_source_id)).val,
             query |-> None],
            StreamParams(media_source_id)
                \o << << <<"a","p","i","_","k","e","y">>, token >>,
                      << <<"T","a","g">>, etag >> >>))

Continue(s, next, keep, got) ==
    [s |-> s, next |-> next, keep |-> keep, got |-> got, res |-> "none",
     panic |-> FALSE]

Return(s, res, got) ==
    [s |-> s, next |-> "return", keep |-> FALSE, got |-> got, res |-> res,
     panic |-> FALSE]

Panic(s) ==
    [s |-> s, next |-> "return", keep |-> FALSE, got |-> <<>>, res |-> "none",
     panic |-> TRUE]

\* set_server_name that drops the guard of server_name before it takes the
\* lock of server_name_hash
set_server_name_release_early(pc, name, s, got) ==
    IF pc = "server_name"
    THEN Continue([s EXCEPT !.server_name = name], "server_name_hash", FALSE,
                  got)
    ELSE Return([s EXCEPT !.server_name_hash = generate_hash(name)], "Ok", got)

\* the two critical sections of set_server_name: the guard of server_name
\* lives to the return
set_server_name_section(pc, name, s, got) ==
    IF pc = "server_name"
    THEN Continue([s EXCEPT !.server_name = name], "server_name_hash", TRUE,
                  got)
    ELSE Return([s EXCEPT !.server_name_hash = generate_hash(name)], "Ok", got)

\* set_user_id that drops the guard of user_id before header_change_user_id
set_user_id_release_early(pc, uid, s, got) ==
    IF pc = "user_id"
    THEN Continue([s EXCEPT !.user_id = uid], "headers", FALSE, got)
    ELSE LET r == header_change_user_id(s, uid) IN Return(r.s, r.res, got)

\* the two critical sections of set_user_id: the guard of user_id lives
\* across header_change_user_id
set_user_id_section(pc, uid, s, got) ==
    IF pc = "user_id"
    THEN Continue([s EXCEPT !.user_id = uid], "headers", TRUE, got)
    ELSE LET r == header_change_user_id(s, uid) IN Return(r.s, r.res, got)

\* Users/{user_id}/FavoriteItems/{id}
FavoritePath(uid, id) ==
    <<"U","s","e","r","s","/">> \o uid
        \o <<"/","F","a","v","o","r","i","t","e","I","t","e","m","s","/">> \o id

\* Users/{user_id}/Password
PasswordPath(uid) ==
    <<"U","s","e","r","s","/">> \o uid \o <<"/","P","a","s","s","w","o","r","d">>

\* like and change_password with the guard of user_id bound to a local that
\* lives to the return
post_section_guard_kept(w, s) ==
    CASE w.pc = "user_id" ->
             IF w.call = "like"
             THEN Continue(s, "url", TRUE,
                           [path |-> FavoritePath(s.user_id, w.arg.v),
                            body |-> <<>>])
             ELSE Continue(s, "user_password", TRUE,
                           [path |-> PasswordPath(s.user_id), body |-> <<>>])
      [] w.pc = "user_password" ->
             Continue(s, "url", FALSE,
                      [w.got EXCEPT !.body = [CurrentPw |-> s.user_password,
                                              NewPw |-> w.arg.v]])
      [] w.pc = "url" ->
             IF s.url = None THEN Return(s, "UrlNotSet", w.got)
             ELSE Continue(s, "headers", FALSE,
                           [path |-> w.got.path, body |-> w.got.body,
                            url |-> UrlJoin(s.url[1], w.got.path).val])
      [] w.pc = "headers" ->
             Continue(s, "acquire", FALSE,
                      [url |-> w.got.url, headers |-> s.headers,
                       body |-> w.got.body])

\* like and change_password up to the first await of post: the path from
\* user_id, the body from user_password, then prepare_request; every guard
\* is a temporary of the statement that reads the field
post_section(w, s) ==
    CASE w.pc = "user_id" ->
             IF w.call = "like"
             THEN Continue(s, "url", FALSE,
                           [path |-> FavoritePath(s.user_id, w.arg.v),
                            body |-> <<>>])
             ELSE Continue(s, "user_password", FALSE,
                           [path |-> PasswordPath(s.user_id), body |-> <<>>])
      [] w.pc = "user_password" ->
             Continue(s, "url", FALSE,
                      [w.got EXCEPT !.body = [CurrentPw |-> s.user_password,
                                              NewPw |-> w.arg.v]])
      [] w.pc = "url" ->
             IF s.url = None THEN Return(s, "UrlNotSet", w.got)
             ELSE Continue(s, "headers", FALSE,
                           [path |-> w.got.path, body |-> w.got.body,
                            url |-> UrlJoin(s.url[1], w.got.path).val])
      [] w.pc = "headers" ->
             Continue(s, "acquire", FALSE,
                      [url |-> w.got.url, headers |-> s.headers,
                       body |-> w.got.body])

\* search up to the first await of request: the path from user_id(), then
\* prepare_request with the URL and the header map of that moment
search_section(w, s) ==
    CASE w.pc = "user_id" ->
             Continue(s, "url", FALSE, [path |-> SearchPath(s.user_id)])
      [] w.pc = "url" ->
             IF s.url = None THEN Return(s, "UrlNotSet", w.got)
             ELSE Continue(s, "headers", FALSE,
                           [path |-> w.got.path, url |-> s.url[1]])
      [] w.pc = "headers" ->
             LET r == prepare_request([s EXCEPT !.url = Some(w.got.url)],
                                      w.got.path,
                                      SearchParams(w.arg.query, w.arg.filter_str,
                                                   w.arg.start_index))
             IN  IF r.res # "Ok" THEN Return(s, r.res, w.got)
                 ELSE Continue(s, "acquire", FALSE, r)

\* the critical section thread w enters on session s: the session it
\* leaves, the lock it takes next in the same function (or "return"),
\* whether it keeps the guard it holds, and what it has read
section(w, s) ==
    LET a == CallArg(w) IN
    CASE w.call = "header_change_url" ->
             LET r == header_change_url(s, a.url, a.port)
             IN  Return(r.s, r.res, w.got)
      [] w.call = "header_change_token" ->
             LET r == header_change_token(s, a.v) IN Return(r.s, r.res, w.got)
      [] w.call = "set_user_id" ->
             set_user_id_section(w.pc, a.v, s, w.got)
      [] w.call = "set_user_name" ->
             Return(set_user_name(s, a.v).s, "Ok", w.got)
      [] w.call = "set_user_password" ->
             Return(set_user_password(s, a.v).s, "Ok", w.got)
      [] w.call = "set_user_access_token" ->
             Return(set_user_access_token(s, a.v).s, "Ok", w.got)
      [] w.call = "set_server_name" ->
             set_server_name_section(w.pc, a.v, s, w.got)
      [] w.call = "user_id" -> Return(s, "Ok", s.user_id)
      [] w.call \in Posters -> post_section(w, s)
      [] w.call = "search" -> search_section(w, s)
      [] w.call = "get_url_and_headers" /\ w.pc = "url" ->
             IF s.url = None THEN Return(s, "UrlNotSet", w.got)
             ELSE Continue(s, "headers", FALSE, [url |-> s.url[1]])
      [] w.call = "get_url_and_headers" /\ w.pc = "headers" ->
             Return(s, "Ok", [url |-> w.got.url, headers |-> s.headers])
      [] w.call = "get_direct_stream_url" /\ w.pc = "url" ->
             IF s.url = None THEN Panic(s)
             ELSE Continue(s, "user_access_token", FALSE, [url |-> s.url[1]])
      [] w.call = "get_direct_stream_url" /\ w.pc = "user_access_token" ->
             Return(s, "Ok",
                    get_direct_stream_url(w.got.url, s.user_access_token,
                                          a.continer, a.media_source_id, a.etag))

\* the guards thread h owns are dropped; a panicking thread poisons them
Release(lk, h, panicking) ==
    [l \in LockNames |->
        IF h \in lk[l].holder
        THEN [holder |-> {}, poisoned |-> lk[l].poisoned \/ panicking]
        ELSE lk[l]]

\* the function thread w is executing returns res: the call of the caller
\* returns, or init goes on to its next setter, or to the spawn of the check
AfterCall(w, res, got) ==
    IF w.op # "init" \/ res # "Ok"
    THEN [w EXCEPT !.pc = "done", !.res = res, !.got = got, !.call = "none",
                   !.rest = <<>>]
    ELSE IF w.rest = <<>>
    THEN [w EXCEPT !.pc = "spawn", !.call = "none"]
    ELSE [w EXCEPT !.call = w.rest[1], !.rest = Tail(w.rest),
                   !.pc = FirstLock(w.rest[1])]

\* lock() on a poisoned Mutex: unwrap() panics, map_err and ? return
poisoned_lock(w, s) ==
    IF w.call \in Unwrappers
         \/ (w.call \in Posters \cup {"search"} /\ w.pc = "user_id")
    THEN Panic(s)
    ELSE Return(s, "LockError", w.got)

\* leave that keeps the guards of a thread after its call has returned
leave_keep_guards(w, lk, h, c) ==
    IF c.panic
    THEN [w |-> [w EXCEPT !.pc = "panicked"], s |-> c.s,
          lk |-> Release([lk EXCEPT ![w.pc].holder = {h}], h, TRUE)]
    ELSE IF c.next = "return"
    THEN [w |-> AfterCall(w, c.res, c.got), s |-> c.s, lk |-> lk]
    ELSE [w |-> [w EXCEPT !.pc = c.next, !.got = c.got], s |-> c.s,
          lk |-> IF c.keep THEN [lk EXCEPT ![w.pc].holder = {h}] ELSE lk]

\* thread h leaves its critical section with outcome c
leave(w, lk, h, c) ==
    IF c.panic
    THEN [w |-> [w EXCEPT !.pc = "panicked"], s |-> c.s,
          lk |-> Release([lk EXCEPT ![w.pc].holder = {h}], h, TRUE)]
    ELSE IF c.next = "return"
    THEN [w |-> AfterCall(w, c.res, c.got), s |-> c.s,
          lk |-> Release(lk, h, FALSE)]
    ELSE [w |-> [w EXCEPT !.pc = c.next, !.got = c.got], s |-> c.s,
          lk |-> IF c.keep THEN [lk EXCEPT ![w.pc].holder = {h}] ELSE lk]

\* one step of thread h, with the lock of field w.pc free or not needed
step(w, s, lk, h) ==
    CHOOSE out \in {leave(w, lk, h, c) :
                       c \in {IF ~EarlyError(w) /\ lk[w.pc].poisoned
                              THEN poisoned_lock(w, s) ELSE section(w, s)}} :
        TRUE

\* the server: the users that are administrators, and what it may answer to
\* the admin check of a user
Administrators == {<<"u","1">>}

NoReply == [user |-> <<>>, body |-> "none"]

ServerHas(uid, body) ==
    /\ body = "json_admin" => uid \in Administrators
    /\ body = "json" => uid \notin Administrators

-----------------------------------------------------------------------------
(* Actions: the synchronous calls.                                         *)

Called(op, arg, res) == [op |-> op, arg |-> arg, res |-> res]

HeaderChangeToken(token) ==
    LET r == header_change_token(Session, token) IN
    /\ Store(r.s)
    /\ last' = Called("header_change_token", [v |-> token], r.res)
    /\ UNCHANGED <<admin, permits, task, cacheVars, built, syncVars>>

HeaderChangeUrl(u, port) ==
    LET r == header_change_url(Session, u, port) IN
    /\ Store(r.s)
    /\ last' = Called("header_change_url", [url |-> u, port |-> port], r.res)
    /\ UNCHANGED <<admin, permits, task, cacheVars, built, syncVars>>

SetUserId(uid) ==
    LET r == set_user_id(Session, uid) IN
    /\ Store(r.s)
    /\ last' = Called("set_user_id", [v |-> uid], r.res)
    /\ UNCHANGED <<admin, permits, task, cacheVars, built, syncVars>>

SetUserName(name) ==
    LET r == set_user_name(Session, name) IN
    /\ Store(r.s)
    /\ last' = Called("set_user_name", [v |-> name], r.res)
    /\ UNCHANGED <<admin, permits, task, cacheVars, built, syncVars>>

SetUserPassword(pw) ==
    LET r == set_user_password(Session, pw) IN
    /\ Store(r.s)
    /\ last' = Called("set_user_password", [v |-> pw], r.res)
    /\ UNCHANGED <<admin, permits, task, cacheVars, built, syncVars>>

SetUserAccessToken(token) ==
    LET r == set_user_access_token(Session, token) IN
    /\ Store(r.s)
    /\ last' = Called("set_user_access_token", [v |-> token], r.res)
    /\ UNCHANGED <<admin, permits, task, cacheVars, built, syncVars>>

SetServerName(name) ==
    LET r == set_server_name(Session, name) IN
    /\ Store(r.s)
    /\ last' = Called("set_server_name", [v |-> name], r.res)
    /\ UNCHANGED <<admin, permits, task, cacheVars, built, syncVars>>

GetUrlAndHeaders ==
    LET r == get_url_and_headers(Session) IN
    /\ last' = Called("get_url_and_headers", r, r.res)
    /\ UNCHANGED <<sessionVars, admin, permits, task, cacheVars, built, syncVars>>

\* add_params_to_url called on request URL u; arg.out is u after the call
AddParamsToUrl(u, params) ==
    /\ last' = Called("add_params_to_url",
                      [url |-> u, params |-> params,
                       out |-> add_params_to_url(u, params)], "Ok")
    /\ UNCHANGED <<sessionVars, admin, permits, task, cacheVars, built, syncVars>>

-----------------------------------------------------------------------------
(* Actions: the image calls.                                               *)

\* a caller starts get_image as future f
GetImage(f, id, image_type, tag, readable) ==
    /\ fetch[f].pc \in {"idle", "done", "panicked"}
    /\ fetch' = [fetch EXCEPT ![f] =
                    get_image_start(Session, files, id, image_type, tag, readable)]
    /\ UNCHANGED <<sessionVars, admin, permits, task, last, files, built, syncVars>>

\* a caller starts get_user_avatar as future f
GetUserAvatar(f) ==
    /\ fetch[f].pc \in {"idle", "done", "panicked"}
    /\ fetch' = [fetch EXCEPT ![f] = get_user_avatar_start(Session)]
    /\ UNCHANGED <<sessionVars, admin, permits, task, last, files, built, syncVars>>

\* request.send() of image call f completes
PictureDone(f, outcome) ==
    /\ fetch[f].pc = "sending"
    /\ fetch' = [fetch EXCEPT ![f] =
                    IF fetch[f].op = "get_image"
                    THEN get_image_response(fetch[f], outcome)
                    ELSE get_user_avatar_response(fetch[f], outcome)]
    /\ UNCHANGED <<sessionVars, admin, permits, task, last, files, built, syncVars>>

\* response.bytes() of image call f completes, and the call runs to its end
PictureBodyDone(f, body, disk) ==
    /\ fetch[f].pc = "reading"
    /\ LET r == IF fetch[f].op = "get_image"
                THEN get_image_body(fetch[f], files, body, disk)
                ELSE get_user_avatar_body(fetch[f], Session, files, body, disk)
       IN  /\ fetch' = [fetch EXCEPT ![f] = r.fk]
           /\ files' = r.files
    /\ UNCHANGED <<sessionVars, admin, permits, task, last, built, syncVars>>

\* response.bytes() of get_image call f completes and the call runs up to
\* the return of std::fs::write
GetImageWrite(f, body, disk) ==
    /\ fetch[f].pc = "reading"
    /\ fetch[f].op = "get_image"
    /\ LET r == get_image_write(fetch[f], files, body, disk) IN
       /\ fetch' = [fetch EXCEPT ![f] = r.fk]
       /\ files' = r.files
    /\ UNCHANGED <<sessionVars, admin, permits, task, last, built, syncVars>>

\* get_image call f writes the attribute and returns
GetImageTag(f, disk) ==
    /\ fetch[f].pc = "tagging"
    /\ LET r == get_image_tag(fetch[f], files, disk) IN
       /\ fetch' = [fetch EXCEPT ![f] = r.fk]
       /\ files' = r.files
    /\ UNCHANGED <<sessionVars, admin, permits, task, last, built, syncVars>>

-----------------------------------------------------------------------------
(* Actions: the admin check and the request pipeline.                      *)

Checks == {t \in Tasks : task[t].op = "authenticate_admin"}

\* init: the setters, then set_admin(false) and the spawn of the admin check
InitAccount(account) ==
    LET r == init(Session, account) IN
    /\ Store(r.s)
    /\ last' = Called("init", account, r.res)
    /\ IF r.res = "Ok"
       THEN /\ Cardinality(Checks) < MaxChecks
            /\ admin' = FALSE
            /\ \E t \in Tasks :
                 /\ task[t].pc \in {"idle", "done"}
                 /\ task' = [task EXCEPT ![t] =
                               [IdleTask EXCEPT !.op = "authenticate_admin",
                                                !.pc = "spawned"]]
       ELSE UNCHANGED <<admin, task>>
    /\ UNCHANGED <<permits, cacheVars, built, syncVars>>

-----------------------------------------------------------------------------
(* Actions: the asynchronous calls.                                        *)

\* a caller starts operation op as future t
Call(t, op) ==
    /\ task[t].pc \in {"idle", "done"}
    /\ task' = [task EXCEPT ![t] = start_call(Session, op)]
    /\ UNCHANGED <<sessionVars, admin, permits, last, cacheVars, built, syncVars>>

\* a caller starts search as future t
Search(t, query, filter_str, start_index) ==
    /\ task[t].pc \in {"idle", "done"}
    /\ LET r == search_request(Session, query, filter_str, start_index) IN
       /\ task' = [task EXCEPT ![t] = start_request("search", r)]
       /\ built' = [built EXCEPT ![t] = IF r.res = "Ok" THEN Some(r) ELSE None]
    /\ UNCHANGED <<sessionVars, admin, permits, last, cacheVars, syncVars>>

\* a caller starts login as future t
Login(t) ==
    /\ task[t].pc \in {"idle", "done"}
    /\ LET r == login_request(Session) IN
       /\ task' = [task EXCEPT ![t] = start_request("login", r)]
       /\ built' = [built EXCEPT ![t] = IF r.res = "Ok" THEN Some(r) ELSE None]
    /\ UNCHANGED <<sessionVars, admin, permits, last, cacheVars, syncVars>>

\* the runtime polls the spawned admin check for the first time
CheckStart(t) ==
    /\ task[t].pc = "spawned"
    /\ LET tk == start_call(Session, "authenticate_admin") IN
       task' = [task EXCEPT ![t] = IF tk.pc = "done" THEN IdleTask ELSE tk]
    /\ UNCHANGED <<sessionVars, admin, permits, last, cacheVars, built, syncVars>>

\* semaphore.acquire() completes
Acquire(t) ==
    /\ task[t].pc = "acquire"
    /\ permits > 0
    /\ permits' = permits - 1
    /\ task' = [task EXCEPT ![t].pc = "sending", ![t].holds = TRUE]
    /\ UNCHANGED <<sessionVars, admin, last, cacheVars, built, syncVars>>

\* the transport call of future t completes with a response or an error
TransportDone(t, outcome) ==
    /\ task[t].pc = "sending"
    /\ IF UsesSendRequest(task[t].op)
       THEN LET r == send_request(task[t], outcome)
                tk == IF r.tk.pc = "done" THEN r.tk ELSE after_response(r.tk)
            IN  /\ permits' = permits + r.release
                /\ task' = [task EXCEPT ![t] =
                              IF tk.op = "authenticate_admin" /\ tk.pc = "done"
                              THEN IdleTask ELSE tk]
       ELSE /\ task' = [task EXCEPT ![t] = request_picture(task[t], outcome)]
            /\ UNCHANGED permits
    /\ built' = [built EXCEPT ![t] = None]
    /\ UNCHANGED <<sessionVars, admin, last, cacheVars, syncVars>>

\* the body read of future t completes
BodyDone(t, body) ==
    /\ task[t].pc = "reading"
    /\ LET tk == after_body(task[t], body) IN
       IF tk.op = "authenticate_admin"
       THEN /\ admin' = admin_after_check(admin, tk.result, body)
            /\ task' = [task EXCEPT ![t] = IdleTask]
       ELSE /\ task' = [task EXCEPT ![t] = tk]
            /\ UNCHANGED admin
    /\ UNCHANGED <<sessionVars, permits, last, cacheVars, built, syncVars>>

-----------------------------------------------------------------------------
(* Actions: the threads and their critical sections.                       *)

\* a caller on thread h calls op with arguments arg
Begin(h, op, arg) ==
    /\ worker[h].pc \in {"idle", "done"}
    /\ worker' = [worker EXCEPT ![h] =
                     LET call == IF op = "init" THEN InitCalls[1] ELSE op IN
                     [IdleWorker EXCEPT !.op = op, !.call = call,
                                        !.rest = IF op = "init"
                                                 THEN Tail(InitCalls) ELSE <<>>,
                                        !.pc = FirstLock(call), !.arg = arg]]
    /\ UNCHANGED <<sessionVars, admin, permits, task, last, cacheVars, built,
                   lock, reply>>

\* thread h takes the lock it waits for and runs its critical section
Step(h) ==
    /\ worker[h].pc \in LockNames
    /\ EarlyError(worker[h]) \/ lock[worker[h].pc].holder = {}
    /\ \E r \in {step(worker[h], Session, lock, h)} :
         /\ worker' = [worker EXCEPT ![h] = r.w]
         /\ lock' = r.lk
         /\ Store(r.s)
    /\ UNCHANGED <<admin, permits, task, last, cacheVars, built, reply>>

\* semaphore.acquire() of the request of thread h completes
Permit(h) ==
    /\ worker[h].pc = "acquire"
    /\ permits > 0
    /\ permits' = permits - 1
    /\ worker' = [worker EXCEPT ![h].pc = "sending"]
    /\ UNCHANGED <<sessionVars, admin, task, last, cacheVars, built, lock,
                   reply>>

\* request.send() of thread h completes: send_request hands the permit
\* back; post returns and so does its caller, whose locals are dropped;
\* request goes on to read the body of a response error_for_status lets pass
Sent(h, outcome) ==
    /\ worker[h].pc = "sending"
    /\ permits' = permits + 1
    /\ worker' = [worker EXCEPT ![h] =
                     IF ~outcome.ok THEN AfterCall(@, "Network", @.got)
                     ELSE IF @.call \in Posters THEN AfterCall(@, "Ok", @.got)
                     ELSE IF error_for_status(outcome.status) # "Ok"
                     THEN AfterCall(@, "Http", @.got)
                     ELSE [@ EXCEPT !.pc = "reading"]]
    /\ lock' = Release(lock, h, FALSE)
    /\ UNCHANGED <<sessionVars, admin, task, last, cacheVars, built, reply>>

\* res.text() of the request of thread h completes, and request returns
\* what serde_json::from_str made of the text
BodyRead(h, body) ==
    /\ worker[h].pc = "reading"
    /\ worker' = [worker EXCEPT ![h] =
                     AfterCall(@, CASE body = "error" -> "Network"
                                    [] body = "garbage" -> "Decode"
                                    [] OTHER -> "Ok",
                               @.got)]
    /\ UNCHANGED <<sessionVars, admin, permits, task, last, cacheVars, built,
                   lock, reply>>

\* init on thread h, its setters done: set_admin(false), the spawn of the
\* admin check, Ok(()).  The new future takes the first free place.
InitSpawn(h) ==
    /\ worker[h].pc = "spawn"
    /\ admin' = FALSE
    /\ \E t \in Tasks :
         /\ task[t].pc \in {"idle", "done"}
         /\ \A u \in Tasks : task[u].pc \in {"idle", "done"} => t <= u
         /\ task' = [task EXCEPT ![t] =
                       [IdleTask EXCEPT !.op = "authenticate_admin",
                                        !.pc = "spawned"]]
         /\ reply' = [reply EXCEPT ![t] = NoReply]
    /\ worker' = [worker EXCEPT ![h] = [@ EXCEPT !.pc = "done", !.res = "Ok"]]
    /\ UNCHANGED <<sessionVars, permits, last, cacheVars, built, lock>>

\* the runtime polls the spawned admin check for the first time: user_id()
\* for the path, then prepare_request; the server will answer the request
\* with body
CheckPoll(t, body) ==
    /\ task[t].pc = "spawned"
    /\ \A l \in {"user_id", "url", "headers"} : lock[l].holder = {}
    /\ ServerHas(user_id, body)
    /\ LET tk == IF lock["url"].poisoned
                 THEN Returned([IdleTask EXCEPT !.op = "authenticate_admin"],
                               "LockError")
                 ELSE start_call(Session, "authenticate_admin")
       IN  /\ task' = [task EXCEPT ![t] = IF tk.pc = "done" THEN IdleTask ELSE tk]
           /\ reply' = [reply EXCEPT ![t] =
                           IF tk.pc = "done" THEN NoReply
                           ELSE [user |-> user_id, body |-> body]]
    /\ UNCHANGED <<sessionVars, admin, permits, last, cacheVars, built,
                   lock, worker>>

\* the body read of admin check t completes with what the server answered
CheckBodyDone(t) ==
    /\ task[t].op = "authenticate_admin"
    /\ BodyDone(t, reply[t].body)

-----------------------------------------------------------------------------
(* Inputs.                                                                 *)

UserIds == {<<"u","1">>, <<"u","2">>, <<"u","\n">>}
Tokens == {<<"t","1">>, <<"t","2">>, <<"t","\n">>}
UserNames == {<<"a">>}
Passwords == {<<"b">>}
ServerNames == {<<"s","v","1">>}

UrlA == <<"h","t","t","p",":","/","/","a">>
BareHost == <<"1","2","7",".","0",".","0",".","1">>
Port8096 == <<"8","0","9","6">>

AccountA ==
    [servername |-> <<"s","v","1">>, server |-> UrlA, username |-> <<"a">>,
     password |-> <<"b">>, port |-> Port8096, user_id |-> <<"u","1">>,
     access_token |-> <<"t","1">>]

\* a second account, on another server
UrlB == <<"h","t","t","p",":","/","/","b">>

AccountB ==
    [servername |-> <<"s","v","2">>, server |-> UrlB, username |-> <<"b">>,
     password |-> <<"c">>, port |-> Port8096, user_id |-> <<"u","2">>,
     access_token |-> <<"t","2">>]

\* the arguments of a get_direct_stream_url call
StreamArgs ==
    [continer |-> <<"m","k","v">>, media_source_id |-> <<"m","1">>,
     etag |-> <<"e","1">>]

\* calls on single fields: the name of the call and its arguments
FieldCalls ==
    {[op |-> "set_server_name", arg |-> [v |-> n]] :
        n \in {<<"s","v","1">>, <<"s","v","2">>}}
      \cup {[op |-> "user_id", arg |-> <<>>],
            [op |-> "set_user_id", arg |-> [v |-> <<"u","1">>]],
            [op |-> "header_change_token", arg |-> [v |-> <<"t","1">>]],
            [op |-> "header_change_url",
             arg |-> [url |-> UrlA, port |-> Port8096]],
            [op |-> "get_direct_stream_url", arg |-> StreamArgs]}

\* setters, getters and request preparation: the name of the call and its
\* arguments
OrderCalls ==
    {[op |-> "set_user_id", arg |-> [v |-> <<"u","1">>]],
     [op |-> "set_server_name", arg |-> [v |-> <<"s","v","1">>]],
     [op |-> "get_url_and_headers", arg |-> <<>>]}

\* posts next to the setters of the fields they read
StallCalls ==
    {[op |-> "like", arg |-> [v |-> <<"i","1">>]],
     [op |-> "change_password", arg |-> [v |-> <<"p","2">>]],
     [op |-> "set_user_id", arg |-> [v |-> <<"u","1">>]],
     [op |-> "set_user_password", arg |-> [v |-> <<"p","1">>]]}

\* set_user_id with every user id, the one no header value can hold included
IdCalls == {[op |-> "set_user_id", arg |-> [v |-> u]] : u \in UserIds}

Accounts ==
    {AccountA,
     [AccountA EXCEPT !.server = BareHost],
     [AccountA EXCEPT !.access_token = <<"t","\n">>],
     [AccountA EXCEPT !.user_id = <<"u","\n">>]}

\* accounts as the account dialog stores them: the port is a text
InitAccounts ==
    {AccountA, AccountB,
     [AccountA EXCEPT !.port = <<"8","0">>],
     [AccountA EXCEPT !.port = <<"x">>],
     [AccountB EXCEPT !.port = <<>>],
     [AccountA EXCEPT !.server = BareHost],
     [AccountA EXCEPT !.user_id = <<"u","\n">>]}

\* inputs of header_change_url
UrlInputs ==
    {UrlA,
     <<"h","t","t","p","s",":","/","/","a">>,
     <<"h","t","t","p",":","/","/","1","2","7",".","0",".","0",".","1">>,
     BareHost,
     <<"a">>,
     <<"f","i","l","e",":","/","/","a">>,
     <<"l","o","c","a","l","h","o","s","t",":","8","0","9","6">>,
     <<"h","t","t","p",":","/","/">>,
     <<"h","t","t","p",":","/","/","a","/","x","/">>,
     <<>>}

PortInputs ==
    {Port8096, <<"8","0">>, <<"4","4","3">>, <<"0">>, <<"6","5","5","3","5">>,
     <<"6","5","5","3","6">>, <<"0","8","0">>, <<"+","8","0">>, <<"-","1">>,
     <<"x">>, <<"8","0","a">>, <<>>}

\* the base URL a configured session holds
ApiBase == header_change_url(DefaultSession, UrlA, Port8096).s.url[1]

\* the URL of a request to the search path, before its parameters
RequestBase ==
    [url |-> UrlJoin(ApiBase, SearchPath(<<"u","1">>)).val, query |-> None]

\* parameters of the call sites: Limit with two values, the placeholder
\* pair of get_list and get_favourite, a search term with reserved
\* characters, a filter
Pairs ==
    {<< <<"L","i","m","i","t">>, <<"5","0">> >>,
     << <<"L","i","m","i","t">>, <<"3","0">> >>,
     << <<>>, <<>> >>,
     << <<"S","e","a","r","c","h","T","e","r","m">>, <<"a"," ","b","&","c","=","d">> >>,
     << <<"F","i","l","t","e","r","s">>, <<"I","s","F","a","v","o","r","i","t","e">> >>}

\* longest parameter list
MaxParams == 3

ParamLists == UNION {[1..n -> Pairs] : n \in 0..MaxParams}

\* items whose images are fetched
ItemIds == {<<"i","1">>}

\* a response without an entity tag, and one with a tag
ETags == {None, Some(<<"e","1">>)}

\* bodies a server sends: one shorter than the threshold, one of exactly
\* the threshold length, two longer ones
ImageBodies ==
    {[len |-> ImageThreshold - 1, data |-> "A"],
     [len |-> ImageThreshold, data |-> "A"],
     [len |-> ImageThreshold + 1, data |-> "A"],
     [len |-> ImageThreshold + 1, data |-> "B"]}

\* statuses an image request is answered with
PictureStatuses == {200, 304, 404}

\* ways request.send() of an image call can end
PictureOutcomes ==
    {[ok |-> FALSE]}
        \cup {[ok |-> TRUE, status |-> st, etag |-> e] :
                 st \in PictureStatuses, e \in ETags}

\* ways response.bytes() can end
BodyOutcomes == {[ok |-> FALSE]} \cup {[ok |-> TRUE, bytes |-> b] : b \in ImageBodies}

-----------------------------------------------------------------------------
(* Specifications.                                                         *)

Init ==
    /\ url = DefaultSession.url
    /\ headers = DefaultSession.headers
    /\ user_id = DefaultSession.user_id
    /\ user_name = DefaultSession.user_name
    /\ user_password = DefaultSession.user_password
    /\ user_access_token = DefaultSession.user_access_token
    /\ server_name = DefaultSession.server_name
    /\ server_name_hash = DefaultSession.server_name_hash
    /\ admin = FALSE
    /\ permits = Threads
    /\ task = [t \in Tasks |-> IdleTask]
    /\ last = Called("default", [v |-> <<>>], "Ok")
    /\ files = NoFiles
    /\ fetch = [f \in Racers |-> IdleFetch]
    /\ built = [t \in Tasks |-> None]
    /\ lock = [l \in LockNames |-> Unlocked]
    /\ worker = [h \in Workers |-> IdleWorker]
    /\ reply = [t \in Tasks |-> NoReply]

\* the session: every setter, init and the admin check it spawns
Next ==
    \/ \E token \in Tokens : HeaderChangeToken(token)
    \/ \E u \in {UrlA, BareHost}, port \in {Port8096, <<"x">>} : HeaderChangeUrl(u, port)
    \/ \E uid \in UserIds : SetUserId(uid)
    \/ \E name \in UserNames : SetUserName(name)
    \/ \E pw \in Passwords : SetUserPassword(pw)
    \/ \E token \in Tokens : SetUserAccessToken(token)
    \/ \E name \in ServerNames : SetServerName(name)
    \/ GetUrlAndHeaders
    \/ \E account \in Accounts : InitAccount(account)
    \/ \E t \in Tasks : CheckStart(t)
    \/ \E t \in Tasks : Acquire(t)
    \/ \E t \in Tasks, outcome \in Outcomes : TransportDone(t, outcome)
    \/ \E t \in Tasks, body \in Bodies : BodyDone(t, body)

Spec == Init /\ [][Next]_vars

\* header_change_url over its input space
NextUrl ==
    \E u \in UrlInputs, port \in PortInputs : HeaderChangeUrl(u, port)

SpecUrl == Init /\ [][NextUrl]_vars

\* the request pipeline under concurrent callers, on a configured server
NextPipe ==
    \/ HeaderChangeUrl(UrlA, Port8096)
    \/ \E t \in Tasks, op \in UserOps : Call(t, op)
    \/ \E t \in Tasks : Acquire(t)
    \/ \E t \in Tasks, outcome \in Outcomes : TransportDone(t, outcome)
    \/ \E t \in Tasks, body \in Bodies : BodyDone(t, body)

SpecPipe == Init /\ [][NextPipe]_vars

\* add_params_to_url over parameter lists
NextQuery ==
    \E params \in ParamLists : AddParamsToUrl(RequestBase, params)

SpecQuery == Init /\ [][NextQuery]_vars

\* the image cache under concurrent image calls
NextCache ==
    \/ HeaderChangeUrl(UrlA, Port8096)
    \/ \E f \in Fetches, id \in ItemIds, readable \in BOOLEAN :
           GetImage(f, id, PRIMARY, None, readable)
    \/ \E f \in Fetches : GetUserAvatar(f)
    \/ \E f \in Fetches, outcome \in PictureOutcomes : PictureDone(f, outcome)
    \/ \E f \in Fetches, body \in BodyOutcomes, disk \in DiskOutcomes :
           PictureBodyDone(f, body, disk)

SpecCache == Init /\ [][NextCache]_vars

\* a server whose images are immutable per tag: the body it sends with
\* each entity tag
RaceBody(etag) ==
    [len |-> ImageThreshold + 1, data |-> IF etag = Some(<<"e","1">>) THEN "A" ELSE "B"]

RaceTags == {Some(<<"e","1">>), Some(<<"e","2">>)}

DiskWorks == [write |-> "ok", xattr |-> TRUE]

\* get_image calls for one key racing through save_image, on a disk that
\* works and a server that answers 200 with a tag
NextRace ==
    \/ HeaderChangeUrl(UrlA, Port8096)
    \/ \E f \in Racers, id \in ItemIds : GetImage(f, id, PRIMARY, None, TRUE)
    \/ \E f \in Racers, e \in RaceTags :
           PictureDone(f, [ok |-> TRUE, status |-> 200, etag |-> e])
    \/ \E f \in Racers :
           GetImageWrite(f, [ok |-> TRUE, bytes |-> RaceBody(fetch[f].etag)], DiskWorks)
    \/ \E f \in Racers : GetImageTag(f, DiskWorks)

SpecRace == Init /\ [][NextRace]_vars

\* calls on single fields from concurrent threads
NextLocks ==
    \/ \E h \in Workers, c \in FieldCalls : Begin(h, c.op, c.arg)
    \/ \E h \in Workers : Step(h)

SpecLocks == Init /\ [][NextLocks]_vars

\* ways request.send() ends in the runs with threads
CheckOutcomes == {[ok |-> FALSE], [ok |-> TRUE, status |-> 200]}

\* searches built on threads while other threads change the user
NextBuild ==
    \/ HeaderChangeUrl(UrlA, Port8096)
    \/ \E h \in Workers :
          Begin(h, "search", [query |-> <<"a">>,
                              filter_str |-> <<"M","o","v","i","e">>,
                              start_index |-> <<"0">>])
    \/ \E h \in Workers, uid \in {<<"u","1">>, <<"u","2">>} :
          Begin(h, "set_user_id", [v |-> uid])
    \/ \E h \in Workers : Step(h)
    \/ \E h \in Workers : Permit(h)
    \/ \E h \in Workers, outcome \in CheckOutcomes : Sent(h, outcome)
    \/ \E h \in Workers, body \in {"json", "garbage"} : BodyRead(h, body)

SpecBuild == Init /\ [][NextBuild]_vars

\* init for one account after the other, and the admin checks it spawns
NextInit ==
    \/ \E account \in InitAccounts : InitAccount(account)
    \/ \E t \in Tasks : CheckStart(t)
    \/ \E t \in Tasks : Acquire(t)
    \/ \E t \in Tasks, outcome \in Outcomes : TransportDone(t, outcome)
    \/ \E t \in Tasks, body \in Bodies : BodyDone(t, body)

SpecInit == Init /\ [][NextInit]_vars

\* posts that wait for a permit and for the network while other threads
\* call setters
NextStall ==
    \/ HeaderChangeUrl(UrlA, Port8096)
    \/ \E h \in Workers, c \in StallCalls : Begin(h, c.op, c.arg)
    \/ \E h \in Workers : Step(h)
    \/ \E h \in Workers : Permit(h)
    \/ \E h \in Workers, outcome \in CheckOutcomes : Sent(h, outcome)

SpecStall == Init /\ [][NextStall]_vars

\* set_user_id from concurrent threads
NextUserId ==
    \/ \E h \in Workers, c \in IdCalls : Begin(h, c.op, c.arg)
    \/ \E h \in Workers : Step(h)

SpecUserId == Init /\ [][NextUserId]_vars

\* setters, getters and request preparation from concurrent threads; a
\* thread that waits for a lock that is free again and again gets it
NextOrder ==
    \/ HeaderChangeUrl(UrlA, Port8096)
    \/ \E h \in Workers, c \in OrderCalls : Begin(h, c.op, c.arg)
    \/ \E h \in Workers : Step(h)

SpecOrder ==
    Init /\ [][NextOrder]_vars /\ \A h \in Workers : SF_vars(Step(h))

\* the thread that switches accounts
MainThread == CHOOSE h \in Workers : \A g \in Workers : h <= g

\* account switches: init for one account after the other from one thread,
\* the admin checks they spawn, and request preparation on other threads
NextSwitch ==
    \/ \E account \in {AccountA, AccountB} : Begin(MainThread, "init", account)
    \/ \E h \in Workers \ {MainThread} : Begin(h, "get_url_and_headers", <<>>)
    \/ \E h \in Workers : Step(h)
    \/ \E h \in Workers : InitSpawn(h)
    \/ \E t \in Tasks, body \in {"json_admin", "json"} : CheckPoll(t, body)
    \/ \E t \in Tasks : Acquire(t)
    \/ \E t \in Tasks, outcome \in CheckOutcomes : TransportDone(t, outcome)
    \/ \E t \in Tasks : CheckBodyDone(t)

SpecSwitch == Init /\ [][NextSwitch]_vars

\* init for an administrator, for another user and with a user id that is
\* rejected, and the admin checks under every answer of the server
NextAdmin ==
    \/ \E account \in {AccountA, AccountB, [AccountA EXCEPT !.user_id = <<"u","\n">>]} :
           Begin(MainThread, "init", account)
    \/ \E h \in Workers : Step(h)
    \/ \E h \in Workers : Cardinality(Checks) < MaxChecks /\ InitSpawn(h)
    \/ \E t \in Tasks, body \in Bodies : CheckPoll(t, body)
    \/ \E t \in Tasks : Acquire(t)
    \/ \E t \in Tasks, outcome \in Outcomes : TransportDone(t, outcome)
    \/ \E t \in Tasks : CheckBodyDone(t)

SpecAdmin == Init /\ [][NextAdmin]_vars

\* the calls of the test: the server is configured, login, the token and
\* the user id are set, search
NextSearch ==
    \/ HeaderChangeUrl(UrlA, Port8096)
    \/ \E token \in Tokens : HeaderChangeToken(token)
    \/ \E uid \in UserIds : SetUserId(uid)
    \/ \E t \in Callers : Login(t)
    \/ \E t \in Callers : Search(t, <<"a">>, <<"M","o","v","i","e">>, <<"0">>)
    \/ \E t \in Callers : Acquire(t)
    \/ \E t \in Callers, outcome \in {[ok |-> FALSE], [ok |-> TRUE, status |-> 200]} :
           TransportDone(t, outcome)
    \/ \E t \in Callers, body \in {"json", "garbage"} : BodyDone(t, body)

SpecSearch == Init /\ [][NextSearch]_vars

-----------------------------------------------------------------------------
(* Properties.                                                             *)

\* the futures whose transport call is in flight
InFlight == {t \in Tasks : task[t].pc = "sending"}

\* the futures that own a permit
Holders == {t \in Tasks : task[t].holds}

\* C1: at every moment the number of transport calls in flight, over all
\* request kinds including request_picture, is at most the semaphore size.
C1_InFlightBounded == Cardinality(InFlight) <= Threads

\* C2: a permit is owned only while send_request awaits the transport, it is
\* released when that call returns with a response or with a transport
\* error, so free plus held permits always equal the limit and all permits
\* are free once every call has returned.
C2_PermitsReleased ==
    /\ permits + Cardinality(Holders) = Threads
    /\ \A t \in Tasks : task[t].holds =>
                            task[t].pc = "sending" /\ UsesSendRequest(task[t].op)
    /\ (\A t \in Tasks : task[t].pc \in {"idle", "done"}) => permits = Threads

\* a call through send_request has returned a transport error, every call
\* has returned and all permits are free
C2_Witness ==
    /\ \E t \in Tasks : /\ task[t].pc = "done"
                        /\ task[t].result = "Network"
                        /\ task[t].status = 0
                        /\ UsesSendRequest(task[t].op)
    /\ \A t \in Tasks : task[t].pc = "done"
    /\ permits = Threads

IsNumeric(p) == p # <<>> /\ AllDigits(p)

\* C3: header_change_url called with a non-numeric port returns an error
\* and leaves the stored base URL unchanged.
C3_InvalidPortRejected ==
    [][(last'.op = "header_change_url" /\ ~IsNumeric(last'.arg.port))
          => (last'.res # "Ok" /\ url' = url)]_vars

\* the text is "scheme://host" and parses as an absolute URL with that host
IsSchemeHost(u) ==
    LET parsed == UrlParse(u) IN
    /\ parsed.ok
    /\ parsed.val.host # None
    /\ parsed.val.host[1] # <<>>
    /\ u = parsed.val.scheme \o <<":", "/", "/">> \o parsed.val.host[1]

ApiRoot == <<"/">> \o EMBY \o <<"/">>

\* the text is a port number of 16 bits in plain decimal
IsPortNumber(p) ==
    IsNumeric(p) /\ ParseU16(p).ok /\ ToDec(ParseU16(p).val) = p

IsHttpHost(u) ==
    IsSchemeHost(u) /\ UrlParse(u).val.scheme \in {HTTP, HTTPS}

\* C4: for every valid absolute URL scheme://host and every numeric port p,
\* header_change_url returns Ok and the base URL read afterwards is exactly
\* scheme://host:p/emby/.  Stated on the inputs most favourable to the
\* claim: http and https URLs, ports 0..65535 in plain decimal.
C4_ExplicitPort ==
    (last.op = "header_change_url" /\ IsHttpHost(last.arg.url)
        /\ IsPortNumber(last.arg.port))
    => /\ last.res = "Ok"
       /\ url # None
       /\ UrlToString(url[1]) = last.arg.url \o <<":">> \o last.arg.port \o ApiRoot

\* C4 as amended: for every http or https URL scheme://host and every port
\* p in 0..65535, header_change_url returns Ok and the base URL is
\* scheme://host:p/emby/, where ":p" is left out when p is the default port
\* of the scheme (80 for http, 443 for https).
C4_ResolvedUrl ==
    (last.op = "header_change_url" /\ IsHttpHost(last.arg.url)
        /\ IsPortNumber(last.arg.port))
    => /\ last.res = "Ok"
       /\ url # None
       /\ UrlToString(url[1]) =
              last.arg.url
                \o (IF Some(ParseU16(last.arg.port).val)
                          = DefaultPort(UrlParse(last.arg.url).val.scheme)
                    THEN <<>>
                    ELSE <<":">> \o last.arg.port)
                \o ApiRoot

\* header_change_url("http://a", "8096") has returned Ok
C4_Witness ==
    /\ last.op = "header_change_url"
    /\ last.arg = [url |-> UrlA, port |-> Port8096]
    /\ last.res = "Ok"
    /\ url # None

\* C5: header_change_url called with a text that does not parse as an
\* absolute URL, such as a bare host, returns an error and leaves the
\* stored base URL unchanged.
C5_UnparsableUrlRejected ==
    [][(last'.op = "header_change_url" /\ ~UrlParse(last'.arg.url).ok)
          => (last'.res # "Ok" /\ url' = url)]_vars

\* header_change_url("127.0.0.1", _) has failed on a configured session
C5_Witness ==
    /\ last.op = "header_change_url"
    /\ last.arg.url = BareHost
    /\ last.res = "UrlParseError"
    /\ url # None

AuthHeaderUserId(h) == AuthUserId(h["x-emby-authorization"])

\* C6: once set_user_id(u) has returned Ok the header map carries UserId u,
\* and the next read of the header map returns an authorization value whose
\* UserId is u.
C6_UserIdFresh ==
    [][/\ (last'.op = "set_user_id" /\ last'.res = "Ok")
            => AuthHeaderUserId(headers') = last'.arg.v
       /\ (last.op = "set_user_id" /\ last.res = "Ok"
             /\ last'.op = "get_url_and_headers" /\ last'.res = "Ok")
            => AuthHeaderUserId(last'.arg.headers) = last.arg.v]_vars

\* the header map has been read right after set_user_id("u2") returned Ok
\* on a session whose token header was set
C6_Witness ==
    /\ last.op = "get_url_and_headers"
    /\ last.res = "Ok"
    /\ AuthHeaderUserId(last.arg.headers) = <<"u","2">>
    /\ user_id = <<"u","2">>

\* C7: in every reachable state the X-Emby-Token entry of the header map
\* equals the stored user_access_token (no entry while the token is empty).
C7_TokenHeaderMatchesField ==
    IF "x-emby-token" \in DOMAIN headers
    THEN headers["x-emby-token"] = user_access_token
    ELSE user_access_token = <<>>

\* C8: a session setter, or init, that returns an error leaves every
\* session field as it was before the call.
C8_FailClosed ==
    [][last'.res # "Ok" => UNCHANGED sessionVars]_vars

\* C9: request returns Http(status) for every response whose status is not
\* 2xx and never reads or decodes the body of such a response.
C9_NonSuccessIsHttpError ==
    \A t \in Tasks :
        (task[t].op = "request" /\ task[t].pc = "done"
            /\ task[t].status # 0 /\ ~IsSuccess(task[t].status))
        => (task[t].result = "Http" /\ ~task[t].decoded)

\* C10: an operation that posts and returns Ok(()) (like, change_password
\* and the others of that shape) never returns Ok when the server answered
\* with a 4xx or 5xx status.
C10_PostErrorPropagates ==
    \A t \in Tasks :
        (task[t].op \in PostUnitOps /\ task[t].pc = "done"
            /\ (IsClientError(task[t].status) \/ IsServerError(task[t].status)))
        => task[t].result # "Ok"

RECURSIVE WithoutEmptyKeys(_)
\* the parameter list with every pair whose key is empty removed
WithoutEmptyKeys(params) ==
    IF params = <<>> THEN <<>>
    ELSE (IF params[1][1] = <<>> THEN <<>> ELSE <<params[1]>>)
           \o WithoutEmptyKeys(Tail(params))

\* C17: add_params_to_url skips every parameter whose key is empty: the
\* request URL built from a list equals the one built from the list with
\* the empty-key pairs removed.
C17_EmptyKeySkipped ==
    last.op = "add_params_to_url"
    => last.arg.out = add_params_to_url(last.arg.url, WithoutEmptyKeys(last.arg.params))

\* C18: the pairs of the query string of the built URL are the pairs of
\* the parameter list, in the order of the list, duplicate keys kept.
C18_QueryOrderKept ==
    last.op = "add_params_to_url"
    => query_pairs(last.arg.out) = last.arg.params

\* a list with the same key twice and a value with reserved characters has
\* been written, the repeated key in list order
C18_Witness ==
    /\ last.op = "add_params_to_url"
    /\ Len(last.arg.params) = 3
    /\ last.arg.params[1][1] = last.arg.params[3][1]
    /\ last.arg.params[1][2] = <<"5","0">>
    /\ last.arg.params[3][2] = <<"3","0">>
    /\ last.arg.params[2][2] = <<"a"," ","b","&","c","=","d">>
    /\ RequestUrlToString(last.arg.out) =
           UrlToString(RequestBase.url)
             \o <<"?","L","i","m","i","t","=","5","0","&",
                  "S","e","a","r","c","h","T","e","r","m","=",
                  "a","+","b","%","2","6","c","%","3","D","d","&",
                  "L","i","m","i","t","=","3","0">>

\* the cache file of the image get_image call f asks for
FetchName(f) == CacheName(fetch[f].id, fetch[f].image_type, fetch[f].tag)

\* image call f of operation op takes the step that ends its body read
BodyStep(f, op) ==
    /\ fetch[f].op = op
    /\ fetch[f].pc = "reading"
    /\ fetch'[f].pc # "reading"

\* C11: a get_image call that returns Ok on a body of at most 1000 bytes
\* returns the empty path and leaves the cache directory as it was; on a
\* longer body it returns the computed path and the file at that path holds
\* exactly the bytes received.
C11_ThresholdRespected ==
    [][\A f \in Fetches :
          (BodyStep(f, "get_image") /\ fetch'[f].result = "Ok")
          => IF fetch'[f].received[1].len <= ImageThreshold
             THEN fetch'[f].path = <<>> /\ files' = files
             ELSE /\ fetch'[f].path = CachePath(FetchName(f))
                  /\ FetchName(f) \in DOMAIN files'
                  /\ files'[FetchName(f)].bytes = fetch'[f].received[1]]_vars

\* get_image has returned Ok with the empty path on a body of exactly the
\* threshold length while the cache holds the longer body of an earlier call
C11_Witness ==
    \E f \in Fetches :
        /\ fetch[f].op = "get_image"
        /\ fetch[f].pc = "done"
        /\ fetch[f].result = "Ok"
        /\ fetch[f].path = <<>>
        /\ fetch[f].received = Some([len |-> ImageThreshold, data |-> "A"])
        /\ \E name \in DOMAIN files :
              files[name].bytes = [len |-> ImageThreshold + 1, data |-> "B"]

\* C12: each entry of the cache is absent or holds at least 1000 bytes: no
\* operation persists a body below the threshold.  Stated on the entries
\* left by writes that completed.
C12_NoSmallEntry ==
    \A name \in DOMAIN files :
        files[name].bytes # Truncated => files[name].bytes.len >= ImageThreshold

\* image call f of operation op takes the step that ends its transport call
ResponseStep(f, op) ==
    /\ fetch[f].op = op
    /\ fetch[f].pc = "sending"
    /\ fetch'[f].pc # "sending"

\* C13: a get_image call that receives a redirection-class response returns
\* Ok with the path of the cache file and writes nothing: the bytes and the
\* stored tag of every file stay as they were.
C13_NotModifiedKeepsFile ==
    [][\A f \in Fetches :
          (ResponseStep(f, "get_image") /\ IsRedirection(fetch'[f].status))
          => /\ fetch'[f].pc = "done"
             /\ fetch'[f].result = "Ok"
             /\ fetch'[f].path = CachePath(FetchName(f))
             /\ files' = files]_vars

\* get_image has returned the path of a cached file with a stored tag on a
\* 304 answer
C13_Witness ==
    \E f \in Fetches :
        /\ fetch[f].op = "get_image"
        /\ fetch[f].pc = "done"
        /\ fetch[f].status = 304
        /\ fetch[f].result = "Ok"
        /\ \E name \in DOMAIN files :
              /\ fetch[f].path = CachePath(name)
              /\ files[name].etag # None
              /\ files[name].bytes.len > ImageThreshold

\* the status of the response image call f is handling in this step
StepStatus(f) ==
    IF fetch[f].pc = "sending" THEN fetch'[f].status ELSE fetch[f].status

\* C14: an image call whose response has a status that is neither success
\* nor redirection (such as 404) returns an error, and leaves every file of
\* the cache and its stored tag untouched.
C14_ErrorStatusKeepsCache ==
    [][\A f \in Fetches :
          (fetch'[f] # fetch[f] /\ fetch[f].pc \in {"sending", "reading"}
             /\ StepStatus(f) # 0
             /\ ~IsSuccess(StepStatus(f)) /\ ~IsRedirection(StepStatus(f)))
          => /\ files' = files
             /\ fetch'[f].pc = "reading" \/ fetch'[f].result # "Ok"]_vars

\* C15: the request of an image call carries If-None-Match only when a
\* stored tag was supplied, and then with that tag: get_user_avatar, and
\* get_image without a cached file or without a stored tag, send no
\* If-None-Match header.
C15_ConditionalOnlyWithTag ==
    [][\A f \in Fetches :
          (fetch'[f].pc = "sending" /\ fetch[f].pc # "sending"
             /\ "if-none-match" \in DOMAIN fetch'[f].req[1].headers)
          => LET name == CacheName(fetch'[f].id, fetch'[f].image_type, fetch'[f].tag)
             IN  /\ fetch'[f].op = "get_image"
                 /\ name \in DOMAIN files
                 /\ files[name].etag # None
                 /\ fetch'[f].req[1].headers["if-none-match"] = files[name].etag[1]]_vars

\* C16: a failure of the stored tag never fails get_image: when the read
\* fails the call sends the request it sends without a prior tag, and when
\* the write fails after the bytes were saved the call still returns Ok with
\* the cache path and the file holds the bytes received; the call ends in a
\* panic only when the write of the file itself failed.
C16_SidecarFailureTolerated ==
    [][\A f \in Fetches :
          /\ (fetch'[f].op = "get_image" /\ fetch'[f] # fetch[f]
                /\ fetch'[f].read = "failed")
             => /\ fetch'[f].pc = "sending"
                /\ fetch'[f].req =
                     Some(image_request(Session, fetch'[f].id, fetch'[f].image_type,
                                        fetch'[f].tag, None))
          /\ (BodyStep(f, "get_image") /\ fetch'[f].warned)
             => /\ fetch'[f].pc = "done"
                /\ fetch'[f].result = "Ok"
                /\ fetch'[f].path = CachePath(FetchName(f))
                /\ FetchName(f) \in DOMAIN files'
                /\ files'[FetchName(f)].bytes = fetch'[f].received[1]
                /\ files'[FetchName(f)].bytes.len > ImageThreshold
          /\ (BodyStep(f, "get_image") /\ fetch'[f].pc = "panicked")
             => \/ files' = files
                \/ files'[FetchName(f)].bytes = Truncated]_vars

\* get_image has returned Ok after the write of the tag failed: the file
\* holds the new bytes under the tag of the earlier response
C16_Witness ==
    \E f \in Fetches :
        /\ fetch[f].op = "get_image"
        /\ fetch[f].pc = "done"
        /\ fetch[f].result = "Ok"
        /\ fetch[f].warned
        /\ \E name \in DOMAIN files :
              /\ fetch[f].path = CachePath(name)
              /\ files[name].bytes = [len |-> ImageThreshold + 1, data |-> "B"]
              /\ files[name].etag = Some(<<"e","1">>)

\* the header map h holds an x-emby-authorization entry whose value is the
\* directive list UserId=..,Client=..,Device=..,DeviceId=..,Version=..
HasAuthorization(h) ==
    /\ "x-emby-authorization" \in DOMAIN h
    /\ h["x-emby-authorization"] =
           generate_emby_authorization(AuthUserId(h["x-emby-authorization"]),
                                       CLIENT_ID, DEVICE_NAME, DEVICE_ID, VERSION)

\* the request prepare_request builds in this state for a path of the user
RequestNow == prepare_request(Session, SearchPath(user_id), <<>>)

\* the request prepare_request_headers builds in this state
RequestHeadersNow ==
    prepare_request_headers(Session, SearchPath(user_id), <<>>, APPLICATION_JSON)

\* C19: in every reachable state the header map holds the
\* x-emby-authorization entry with its five directives, whatever setter ran
\* and whatever it returned, and so does every request prepare_request or
\* prepare_request_headers builds, also before a token is set.
C19_AuthorizationAlwaysSent ==
    /\ HasAuthorization(headers)
    /\ RequestNow.res = "Ok" => HasAuthorization(RequestNow.headers)
    /\ RequestHeadersNow.res = "Ok" => HasAuthorization(RequestHeadersNow.headers)

\* before any token is set, on a configured session, set_user_id has just
\* been refused and a request still carries the directives of user u1
C19_Witness ==
    /\ last.op = "set_user_id"
    /\ last.res = "InvalidHeaderValue"
    /\ "x-emby-token" \notin DOMAIN headers
    /\ RequestNow.res = "Ok"
    /\ AuthHeaderUserId(RequestNow.headers) = <<"u","1">>

\* the X-Emby-Token entry of header map h
TokenOf(h) == IF "x-emby-token" \in DOMAIN h THEN Some(h["x-emby-token"]) ELSE None

\* the path of the search URL of user uid under the API root
SearchSegments(uid) ==
    <<EMBY, <<"U","s","e","r","s">>, uid, <<"I","t","e","m","s">> >>

\* C20: once header_change_token(t) has returned Ok the token entry is t
\* and changes only in a later header_change_token call, every request
\* prepared carries the token entry of that moment, and a search prepared
\* after set_user_id(u) returned Ok has u as the user segment of its path.
C20_TokenAndUserFresh ==
    [][/\ (last'.op = "header_change_token" /\ last'.res = "Ok")
            => TokenOf(headers') = Some(last'.arg.v)
       /\ TokenOf(headers') # TokenOf(headers) => last'.op = "header_change_token"
       /\ \A t \in Tasks :
            (built'[t] # built[t] /\ built'[t] # None)
            => /\ TokenOf(built'[t][1].headers) = TokenOf(headers)
               /\ (task'[t].op = "search" /\ AuthHeaderUserId(headers) = user_id)
                    => built'[t][1].url.url.path = SearchSegments(user_id)]_vars

\* header_change_token("t2") has returned Ok on a session of user u2 and a
\* search prepared since carries token t2 and asks for Users/u2/Items
C20_Witness ==
    /\ last.op = "header_change_token"
    /\ last.arg.v = <<"t","2">>
    /\ last.res = "Ok"
    /\ user_id = <<"u","2">>
    /\ \E t \in Tasks :
          /\ task[t].op = "search"
          /\ task[t].pc = "acquire"
          /\ built[t] # None
          /\ TokenOf(built[t][1].headers) = Some(<<"t","2">>)
          /\ AuthHeaderUserId(built[t][1].headers) = <<"u","2">>
          /\ built[t][1].url.url.path = SearchSegments(<<"u","2">>)


-----------------------------------------------------------------------------
(* Calls on a session without a base URL.                                  *)

\* C21: while the base URL is unset, every call of a request operation
\* returns the error of prepare_request in the step that starts it: it
\* never waits for a permit, holds none, sends nothing and leaves the
\* permit count as it was.
C21_UnsetUrlFailsEarly ==
    [][\A t \in Tasks :
          (url = None /\ task'[t] # task[t])
          => /\ task'[t].pc = "done"
             /\ task'[t].result = "UrlNotSet"
             /\ ~task'[t].holds
             /\ task'[t].status = 0
             /\ permits' = permits]_vars

\* request has returned the error on a session whose URL was never set,
\* with every permit free
C21_Witness ==
    /\ url = None
    /\ permits = Threads
    /\ \E t \in Tasks : /\ task[t].op = "request"
                        /\ task[t].pc = "done"
                        /\ task[t].result = "UrlNotSet"


-----------------------------------------------------------------------------
(* The decode error of request.                                            *)

\* text sub occurs in text s
Contains(s, sub) ==
    \E i \in 1..(Len(s) - Len(sub) + 1) : SubSeq(s, i, i + Len(sub) - 1) = sub

\* paths request is called with, bodies that are not JSON of the expected
\* type, and messages of the decoder
DecodePaths ==
    {SearchPath(<<"u","1">>), <<"S","y","s","t","e","m","/","I","n","f","o">>}
DecodeTexts == {<<"<","h","t","m","l",">">>, <<"{","}">>, <<"n","u","l","l">>}
DecoderMessages == {<<"e","o","f">>, <<"x",":"," ","y">>}

\* request returns from its body read
RequestBodyStep(t) ==
    /\ task[t].op = "request"
    /\ task[t].pc = "reading"
    /\ task'[t].pc = "done"

\* the text of the decode error contains the request path and the body
DecodeErrorQuotes ==
    \A path \in DecodePaths, e \in DecoderMessages, text \in DecodeTexts :
        /\ Contains(request_decode_error(path, e, text), path)
        /\ Contains(request_decode_error(path, e, text), text)

\* C26: a request call whose 2xx response was read and handed to the decoder
\* returns Ok or the decode error, never another error; the step in which
\* it returns leaves the session and the permit count as they were and the
\* call holds no permit; the text of the decode error contains the request
\* path and the text of the body.
C26_DecodeErrorReported ==
    /\ [][\A t \in Tasks :
             (RequestBodyStep(t) /\ IsSuccess(task[t].status))
             => /\ task'[t].decoded => task'[t].result \in {"Ok", "Decode"}
                /\ ~task'[t].decoded => task'[t].result = "Network"
                /\ ~task'[t].holds
                /\ permits' = permits
                /\ UNCHANGED sessionVars]_vars
    /\ []DecodeErrorQuotes

\* request has returned the decode error on a 200 response while another
\* call holds the only permit
C26_Witness ==
    /\ permits = 0
    /\ \E t \in Tasks : /\ task[t].op = "request"
                        /\ task[t].pc = "done"
                        /\ task[t].status = 200
                        /\ task[t].decoded
                        /\ task[t].result = "Decode"


-----------------------------------------------------------------------------
(* The stored tag of a saved image.                                        *)

\* image call f of get_image saves a body in this step
SaveStep(f) ==
    /\ BodyStep(f, "get_image")
    /\ fetch'[f].result = "Ok"
    /\ fetch'[f].path # <<>>

\* C30: when get_image persists a body, the user.etag attribute of the
\* cache file is afterwards the ETag of that response, and the file has no
\* such attribute when the response carried none.  Stated for the saves in
\* which no write of the attribute failed.
C30_StoredTagOfSameResponse ==
    [][\A f \in Fetches :
          (SaveStep(f) /\ ~fetch'[f].warned)
          => files'[FetchName(f)].etag = fetch[f].etag]_vars


-----------------------------------------------------------------------------
(* Racing saves of one image.                                              *)

\* every image call has returned
AllReturned == \A f \in Racers : fetch[f].pc \in {"idle", "done", "panicked"}

\* C27: once the racing get_image calls for one key have returned, the
\* cache file holds the whole body of one of the responses and its
\* user.etag attribute is the entity tag of that same response.
C27_RacingSavesConsistent ==
    AllReturned
    => \A name \in DOMAIN files :
          \E e \in RaceTags : files[name] = [bytes |-> RaceBody(e), etag |-> e]

-----------------------------------------------------------------------------
(* The locks of the session fields.                                        *)

\* thread h returns from function f in this step
Returns(h, f) == worker[h].call = f /\ worker'[h].call # f

\* no set_server_name call is between its two writes
NameAtRest == lock["server_name"].holder = {}

\* C25: in the step in which a set_server_name call returns Ok, and in
\* every state in which no set_server_name call is in progress, whatever
\* calls ran concurrently, server_name_hash is generate_hash of the stored
\* server_name (or both are still the empty texts of the constructor).
C25_HashOfStoredName ==
    /\ [][\A h \in Workers :
             (Returns(h, "set_server_name") /\ worker'[h].res = "Ok")
             => server_name_hash' = generate_hash(server_name')]_vars
    /\ [](NameAtRest
          => \/ server_name_hash = generate_hash(server_name)
             \/ /\ server_name = DefaultSession.server_name
                /\ server_name_hash = DefaultSession.server_name_hash)

\* two set_server_name calls with different names have run concurrently and
\* both have returned Ok
C25_Witness ==
    /\ NameAtRest
    /\ \E h, g \in Workers :
         /\ worker[h].op = "set_server_name" /\ worker[g].op = "set_server_name"
         /\ worker[h].pc = "done" /\ worker[g].pc = "done"
         /\ worker[h].res = "Ok" /\ worker[g].res = "Ok"
         /\ worker[h].arg # worker[g].arg
         /\ server_name = worker[g].arg.v

\* thread h waits for a lock that thread g holds
Waits(h, g) ==
    /\ worker[h].pc \in LockNames
    /\ ~EarlyError(worker[h])
    /\ g \in lock[worker[h].pc].holder

\* C23: a thread that needs the lock of a field waits only for a thread
\* that is itself at work on that field, never for one that is by then
\* reading or writing another field.
C23_NoCrossFieldBlocking ==
    \A h, g \in Workers : Waits(h, g) => worker[g].pc = worker[h].pc

\* C24: every step of a get_direct_stream_url call leaves the session
\* fields and their locks, the permits and the futures as they were.
C24_StreamUrlLeavesSessionAlone ==
    [][\A h \in Workers :
          (worker[h].call = "get_direct_stream_url" /\ worker'[h] # worker[h])
          => UNCHANGED <<sessionVars, lock, permits, task>>]_vars

-----------------------------------------------------------------------------
(* Account switches.                                                       *)

\* the base URL the session holds for an account
UrlOf(account) ==
    header_change_url(DefaultSession, account.server, account.port).s.url[1]

\* a URL and header map that pair X's token or user id with Y's server, or
\* Y's token with X's user id
Mixes(got, X, Y) ==
    \/ /\ got.url = UrlOf(Y)
       /\ \/ TokenOf(got.headers) = Some(X.access_token)
          \/ AuthHeaderUserId(got.headers) = X.user_id
    \/ /\ TokenOf(got.headers) = Some(Y.access_token)
       /\ AuthHeaderUserId(got.headers) = X.user_id

\* C28: the URL and the headers a get_url_and_headers call returns never
\* pair one account's token or user id with the other account's server
\* URL, nor one account's token with the other's user id.
C28_OneAccountPerRequest ==
    \A h \in Workers :
        (worker[h].op = "get_url_and_headers" /\ worker[h].pc = "done"
            /\ worker[h].res = "Ok")
        => /\ ~Mixes(worker[h].got, AccountA, AccountB)
           /\ ~Mixes(worker[h].got, AccountB, AccountA)

\* no init call is in progress and no admin check is alive
Settled ==
    /\ \A h \in Workers : worker[h].op = "init" => worker[h].pc = "done"
    /\ Checks = {}

\* C29: once every init call has returned and every admin check has
\* completed, the admin flag is set only if the user the session holds is
\* an administrator.
C29_FlagOfCurrentAccount ==
    (Settled /\ admin) => user_id \in Administrators

-----------------------------------------------------------------------------
(* init and its admin check.                                               *)

\* init returns Ok on thread h in this step
InitReturnsOk(h) ==
    /\ worker[h].op = "init" /\ worker[h].pc # "done"
    /\ worker'[h].pc = "done" /\ worker'[h].res = "Ok"

\* admin check t ends in this step
CheckEnds(t) ==
    /\ task[t].op = "authenticate_admin"
    /\ task'[t].op # "authenticate_admin"

\* admin check t ends in this step with an answer that is no HTTP error and
\* decodes to is_administrator = true
CheckSucceeds(t) ==
    /\ CheckEnds(t)
    /\ task[t].pc = "reading"
    /\ error_for_status(task[t].status) = "Ok"
    /\ reply[t].body = "json_admin"

\* C22: the step in which init returns Ok leaves the admin flag false and
\* the check it spawned not yet polled; a check that ends without a decoded
\* is_administrator = true leaves the flag as it was and changes nothing
\* for the caller of init; the flag rises only in the step in which a
\* check succeeds with is_administrator = true.
C22_FlagFollowsCheck ==
    /\ [][\A h \in Workers :
             InitReturnsOk(h)
             => /\ admin' = FALSE
                /\ \E t \in Tasks :
                     task[t].pc # "spawned" /\ task'[t].pc = "spawned"]_vars
    /\ [][\A t \in Tasks :
             CheckEnds(t)
             => /\ admin' = (admin \/ CheckSucceeds(t))
                /\ worker' = worker]_vars
    /\ [][(admin' /\ ~admin) => \E t \in Tasks : CheckSucceeds(t)]_vars

\* init has returned Ok for an administrator, its check has succeeded and
\* the flag is set
C22_Witness ==
    /\ Settled
    /\ admin
    /\ user_id \in Administrators
    /\ \E h \in Workers :
         worker[h].op = "init" /\ worker[h].pc = "done" /\ worker[h].res = "Ok"

-----------------------------------------------------------------------------
(* The paths get_image returns.                                            *)

\* C31: whenever a get_image call has returned Ok with a non-empty path, the
\* cache holds a file at that path.
C31_ReturnedPathExists ==
    \A f \in Fetches :
        (fetch[f].op = "get_image" /\ fetch[f].pc = "done"
            /\ fetch[f].result = "Ok" /\ fetch[f].path # <<>>)
        => \E name \in DOMAIN files : fetch[f].path = CachePath(name)

-----------------------------------------------------------------------------
(* The order of the locks.                                                 *)

\* thread h is inside a call
InCall(h) == worker[h].pc \in LockNames

\* thread h can take its next step
CanStep(h) ==
    /\ InCall(h)
    /\ EarlyError(worker[h]) \/ lock[worker[h].pc].holder = {}

C33_HeaderOfStoredUserId ==
    (\A h \in Workers : worker[h].pc \notin LockNames)
        => AuthHeaderUserId(headers) = user_id

\* the same when every completed call was given a user id that a header
\* value can hold
C33_ValidIdsAgree ==
    (/\ \A h \in Workers : worker[h].pc \notin LockNames
     /\ \A h \in Workers : worker[h].pc = "done"
                                => worker[h].arg.v # <<"u","\n">>)
        => AuthHeaderUserId(headers) = user_id

\* thread h is suspended in send_request
Suspended(h) == worker[h].pc \in {"acquire", "sending"}

\* C34: a thread that is suspended waiting for a permit or for the network
\* holds no session lock, and no thread waits for a lock it holds.
C34_NoLockAcrossAwait ==
    \A h \in Workers :
        Suspended(h)
            => /\ \A l \in LockNames : h \notin lock[l].holder
               /\ \A g \in Workers : ~Waits(g, h)

\* change_password waits for the network with its request built while a
\* set_user_password call on another thread takes the lock and returns
C34_Witness ==
    \E h, g \in Workers :
        /\ worker[h].pc = "sending"
        /\ worker[h].op = "change_password"
        /\ worker[h].got.body.CurrentPw # user_password
        /\ worker[g].op = "set_user_password"
        /\ worker[g].pc = "done"

\* server:port/emby/ as Url serialises it: the default port of the scheme is
\* left out
AccountUrl(account) ==
    account.server
        \o (IF IsPortNumber(account.port)
                 /\ Some(ParseU16(account.port).val)
                       = DefaultPort(UrlParse(account.server).val.scheme)
            THEN <<>>
            ELSE <<":">> \o account.port)
        \o ApiRoot

\* every field of session s has the value of account
Reflects(s, account) ==
    /\ s.url # None
    /\ UrlToString(s.url[1]) = AccountUrl(account)
    /\ "x-emby-token" \in DOMAIN s.headers
    /\ s.headers["x-emby-token"] = account.access_token
    /\ s.user_access_token = account.access_token
    /\ s.user_id = account.user_id
    /\ AuthHeaderUserId(s.headers) = account.user_id
    /\ s.user_name = account.username
    /\ s.user_password = account.password
    /\ s.server_name = account.servername
    /\ s.server_name_hash = generate_hash(account.servername)

\* C35: after init(account) has returned Ok the session reflects every field
\* of the account: the base URL is account.server with account.port and the
\* API root, the token header and user_access_token are the access token,
\* user_id and the header UserId are the user id, user_name, user_password
\* and server_name are the account's, server_name_hash is the hash of the
\* server name.
C35_SessionReflectsAccount ==
    (last.op = "init" /\ last.res = "Ok") => Reflects(Session, last.arg)

\* the same for the accounts whose port is a number of 16 bits
C35_NumericPortReflected ==
    (last.op = "init" /\ last.res = "Ok" /\ IsPortNumber(last.arg.port))
        => Reflects(Session, last.arg)

\* C36: every search request that has been built asks for the items of the
\* user whose id is the UserId of the authorization header it carries, also
\* when set_user_id runs on another thread while the request is built.
C36_PathUserIsHeaderUser ==
    \A h \in Workers :
        (worker[h].op = "search"
            /\ worker[h].pc \in {"acquire", "sending", "reading"})
        => worker[h].got.url.url.path
              = SearchSegments(AuthHeaderUserId(worker[h].got.headers))

\* C37: get_image returns a typed result on every path: the step that ends
\* the body read, the write of the cache file included, ends in a return
\* and never in a panic.
C37_WriteFailureReturnsError ==
    [][\A f \in Fetches :
          BodyStep(f, "get_image") => fetch'[f].pc = "done"]_vars

=============================================================================
